---- MODULE Spec2Model ----
(***************************************************************************)
(* Orchestration engine of the agent-aware evaluation harness:             *)
(* WorkspaceManager, PortAllocator, ConcurrencyLimiter, TranscriptRecorder,*)
(* runGrader, runTrial / runTrialWithWorkspace, runEval / runEvalParallel  *)
(* and IncrementalReporter.                                                *)
(*                                                                         *)
(* JavaScript runs one synchronous segment at a time; an action of this    *)
(* module is one such segment (the code between two awaits).               *)
(***************************************************************************)
EXTENDS Integers, Sequences, FiniteSets, TLC

\* ------------------------------------------------------------------ bounds

\* number of tasks handed to runEval / runEvalParallel
NumTasks == 3
\* number of faults (failed fs calls, failed agent calls, throwing graders)
\* injected into one run
MaxFaults == 1
\* largest maxConcurrency the limiter is constructed with
MaxConcurrency == 2
\* number of acquire calls each caller of the stand-alone limiter makes
MaxRounds == 2
\* entries and getEntries() calls in a stand-alone recorder run, and clock range
MaxEntries == 2
MaxSnapshots == 1
MaxClock == 1
MaxPortRange == 4
\* processes registered with one environment in a stand-alone cleanup run
MaxProcesses == 2

\* ------------------------------------------------------------------ values

Undefined == "undefined"
NoId == "none"

Tasks == 1 .. NumTasks

\* task ids (evalTaskSchema: /^\d{3}-[a-z0-9-]+$/), unique per task
TaskIdList == <<"001-a", "001-a-1", "002-b", "002-b-1", "003-c", "003-c-1">>

\* the batches handed to runEvalParallel and to runEval: per task its id, the
\* number of its userMessages, the type tags of its graders, in order, what
\* its setupScript does ("none": the task has no script) and what the
\* dependency install does in its workspace
SerialBatch ==
  [i \in Tasks |->
     [id |-> TaskIdList[i], turns |-> IF i % 3 = 1 THEN 2 ELSE 1,
      graders |-> IF i % 3 = 1 THEN <<"code", "server">>
                  ELSE IF i % 3 = 2 THEN <<"llm">>
                  ELSE <<"server", "llm">>,
      setup |-> IF i % 3 = 1 THEN "fails" ELSE IF i % 3 = 2 THEN "ok" ELSE "none",
      install |-> "ok"]]

ParallelBatch ==
  [i \in Tasks |->
     [id |-> TaskIdList[i], turns |-> 1,
      graders |-> IF i % 2 = 1 THEN <<"server">> ELSE <<"llm">>,
      setup |-> IF i % 3 = 2 THEN "fails" ELSE IF i % 3 = 0 THEN "ok" ELSE "none",
      install |-> IF i % 3 = 1 THEN "fails" ELSE "ok"]]

\* a batch no validation has looked at: a task without graders and tasks
\* with a grader whose type tag runGrader does not know
EdgeBatch ==
  [i \in Tasks |->
     [id |-> TaskIdList[i], turns |-> 1,
      graders |-> IF i % 3 = 1 THEN <<>>
                  ELSE IF i % 3 = 2 THEN <<"bogus", "code">>
                  ELSE <<"code", "bogus">>,
      setup |-> IF i % 3 = 0 THEN "fails" ELSE "none",
      install |-> "ok"]]

\* evalTaskSchema.parse(task) throws: userMessages and graders need one
\* element at least, a grader one of the known type tags
validateTaskThrows(task) ==
  \/ task.turns < 1
  \/ Len(task.graders) < 1
  \/ \E k \in 1 .. Len(task.graders) :
       task.graders[k] \notin
         {"dependency", "server", "data-collection", "storage", "context",
          "detection", "error-handle", "code", "llm", "runtime", "behavior", "alert"}

\* config.parallel.basePort || 5200
DefaultBasePort == 5200
\* new PortAllocator(5200, 100): the serial allocator
SerialBasePort == 5200
SerialPortRange == 100

NoGraderResult == [type |-> "", passed |-> FALSE, score |-> 0, error |-> Undefined]

\* ------------------------------------------------------------------ state

VARIABLES
  tasks,           \* the batch: EvalTask[] (id, userMessages, graders)
  faults,          \* number of faults injected so far
  config,          \* EvalConfig: maxConcurrency, keepTempDir, verbose
  pc,              \* position of each task's async function
  limiter,         \* ConcurrencyLimiter: running, queue
  allocatedPorts,  \* WorkspaceManager.allocatedPorts
  workspaces,      \* WorkspaceManager.workspaces: id -> IsolatedWorkspace
  workspace,       \* the workspace id held by each task (NoId: undefined)
  creating,        \* create()'s locals while it is suspended: id, devPort
  dirs,            \* directories that exist on disk
  progress,        \* ProgressDisplay: phase of each task
  recorder,        \* TranscriptRecorder.entries of each trial
  turn,            \* index of the turn awaiting the agent
  gi,              \* index of the grader awaiting its strategy
  graderResults,   \* the local graderResults array of each trial
  env,             \* IsolatedEnvironment of each trial: exists, serverProcesses
  fault,           \* the fault a rejected awaited call carries (Undefined: none)
  trial,           \* TrialResult returned by the trial (returned = FALSE: none)
  results,         \* results array of runEval / runEvalParallel
  reporter,        \* IncrementalReporter: results, disk report, transcripts
  evalState,       \* runEval / runEvalParallel: running, returned, rejected
  serialPorts,     \* serialPortAllocator: allocatedPorts, portLock
  now,             \* Date.now()
  snapshots,       \* getEntries() results seen by the recorder's client
  outcomes,        \* what the grading strategies of each trial did, in order
  agentCalls,      \* what callAI did at each turn of each trial, in order
  arrival,         \* the number of the acquire() call each waiter is suspended in
  rounds,          \* acquire() calls made so far by each caller of the limiter
  starting,        \* the startServerProcess call of each trial: promise, timers, process
  rewritten        \* the rewrittenTask of each trial (NoTask: not yet computed)

vars == <<tasks, faults, config, pc, limiter, allocatedPorts, workspaces, workspace, creating, dirs,
          progress, recorder, turn, gi, graderResults, env, fault, trial,
          results, reporter, evalState, serialPorts, now, snapshots,
          outcomes, agentCalls, arrival, rounds, starting, rewritten>>

TaskId(i) == tasks[i].id
NumTurns(i) == tasks[i].turns
Graders(i) == tasks[i].graders

\* ------------------------------------------------------ TranscriptRecorder

Entry(ts, type, text, res) ==
  [timestamp |-> ts, type |-> type, text |-> text, res |-> res]

NewRecorder == [entries |-> <<>>, startTime |-> now]

getTimestamp(r) == now - r.startTime

\* variant: this.entries.unshift(...)
recordFront(r, type, text, res) ==
  [r EXCEPT !.entries = <<Entry(getTimestamp(r), type, text, res)>> \o @]

record(r, type, text, res) ==
  [r EXCEPT !.entries = Append(@, Entry(getTimestamp(r), type, text, res))]

recordUserMessage(r, message) == record(r, "user_message", message, NoGraderResult)
recordAssistantMessage(r, message) == record(r, "assistant_message", message, NoGraderResult)
recordToolCall(r, name) == record(r, "tool_call", name, NoGraderResult)
recordStepStart(r, step) == record(r, "step_start", step, NoGraderResult)
recordStepFinish(r, step, success) ==
  record(r, "step_finish", step \o (IF success THEN ":true" ELSE ":false"), NoGraderResult)
recordError(r, message) == record(r, "error", message, NoGraderResult)
recordGraderResult(r, result) == record(r, "grader_result", result.type, result)
recordToolResult(r, name) == record(r, "tool_result", name, NoGraderResult)

\* recordToolCalls: one tool_call entry per element, in order
RECURSIVE recordToolCalls(_, _)
recordToolCalls(r, names) ==
  IF names = <<>> THEN r
  ELSE recordToolCalls(recordToolCall(r, Head(names)), Tail(names))

\* recordChunk: only the key chunk types are recorded
recordChunk(r, type) ==
  IF type \in {"tool-call", "tool-result", "finish"}
  THEN record(r, type, "chunk", NoGraderResult) ELSE r

\* getSummary().totalEntries and .errors
getSummary(r) ==
  [totalEntries |-> Len(r.entries),
   errors |-> Cardinality({k \in 1 .. Len(r.entries) : r.entries[k].type = "error"}),
   duration |-> getTimestamp(r)]

getEntries(r) == r.entries

clear(r) == [entries |-> <<>>, startTime |-> now]

\* ------------------------------------------------------ ConcurrencyLimiter

NewLimiter(maxConcurrency) ==
  [maxConcurrency |-> maxConcurrency, running |-> 0, queue |-> <<>>]

\* variant: the slot test admits one caller too many
acquireGrantedOffByOne(lim) == lim.running <= lim.maxConcurrency

\* acquire() returns at once (TRUE) or suspends the caller in the queue
acquireGranted(lim) == lim.running < lim.maxConcurrency

acquire(lim, caller) ==
  IF acquireGranted(lim)
  THEN [lim EXCEPT !.running = @ + 1]
  ELSE [lim EXCEPT !.queue = Append(@, caller)]

\* variant: this.queue.pop()
pop(q) == [next |-> q[Len(q)], rest |-> SubSeq(q, 1, Len(q) - 1)]

\* this.queue.shift() on a non-empty queue: the element removed, and the rest
shift(q) == [next |-> Head(q), rest |-> Tail(q)]

\* the waiter release() wakes (0: none)
releaseNext(lim) == IF lim.queue # <<>> THEN shift(lim.queue).next ELSE 0

\* variant: release() forgets to give the slot back
releaseWithoutDecrement(lim) ==
  IF lim.queue # <<>>
  THEN [lim EXCEPT !.running = @ + 1, !.queue = shift(@).rest]
  ELSE lim

\* release(): running--, then the first waiter, if any, is given the slot
release(lim) ==
  IF lim.queue # <<>>
  THEN [lim EXCEPT !.running = (@ - 1) + 1, !.queue = shift(@).rest]
  ELSE [lim EXCEPT !.running = @ - 1]

\* ----------------------------------------------------------- PortAllocator

NewPortAllocator(basePort, portRange) ==
  [basePort |-> basePort, portRange |-> portRange,
   allocatedPorts |-> {}, portLock |-> <<>>]

\* variant: the scan runs downwards from the top of the range
allocateScanDescending(pa) ==
  LET free == {k \in 0 .. pa.portRange :
                 /\ (pa.basePort + 2 * k) \notin pa.allocatedPorts
                 /\ pa.basePort + 2 * k < pa.basePort + pa.portRange}
  IN  IF free = {} THEN pa.basePort + 2 * pa.portRange
      ELSE pa.basePort + 2 * (CHOOSE k \in free : \A j \in free : j <= k)

\* the port the while loop of allocate stops at
allocateScan(pa) ==
  LET stop(k) == \/ (pa.basePort + 2 * k) \notin pa.allocatedPorts
                 \/ pa.basePort + 2 * k >= pa.basePort + pa.portRange
      k == CHOOSE k \in 0 .. pa.portRange : stop(k) /\ \A j \in 0 .. k - 1 : ~stop(j)
  IN  pa.basePort + 2 * k

\* allocate(taskId) throws (the range is exhausted)
allocateThrows(pa, taskId) ==
  /\ taskId \notin DOMAIN pa.portLock
  /\ allocateScan(pa) >= pa.basePort + pa.portRange

\* variant: allocate scans for a pair even when the task holds one
allocatePortRescan(pa, taskId) == allocateScan(pa)

\* the dev port allocate(taskId) returns (serverPort is devPort + 1)
allocatePort(pa, taskId) ==
  IF taskId \in DOMAIN pa.portLock THEN pa.portLock[taskId] ELSE allocateScan(pa)

\* the allocator after allocate(taskId)
allocate(pa, taskId) ==
  IF taskId \in DOMAIN pa.portLock \/ allocateThrows(pa, taskId) THEN pa
  ELSE [pa EXCEPT !.allocatedPorts = @ \cup {allocateScan(pa), allocateScan(pa) + 1},
                  !.portLock = (taskId :> allocateScan(pa)) @@ @]

\* variant: release(taskId) frees nothing
releaseTaskKept(pa, taskId) == pa

\* the allocator after release(taskId)
releaseTask(pa, taskId) ==
  IF taskId \notin DOMAIN pa.portLock THEN pa
  ELSE [pa EXCEPT !.allocatedPorts = @ \ {pa.portLock[taskId], pa.portLock[taskId] + 1},
                  !.portLock = [x \in DOMAIN pa.portLock \ {taskId} |-> pa.portLock[x]]]

\* -------------------------------------------------------- WorkspaceManager

\* `${taskId}-${Date.now()}-${Math.random().toString(36).slice(2, 8)}`
WorkspaceId(taskId, ts, rnd) == taskId \o "-" \o ts \o "-" \o rnd

\* path.join(this.baseDir, id) and path.join(projectDir, '.agent-aware')
ProjectDir(id) == "tmp/" \o id
AgentAwareDir(projectDir) == projectDir \o "/.agent-aware"

\* values Date.now() and the random suffix take at a create() call
TsValues == {"1"}
RndValues == {""}

PairFree(alloc, port) == port \notin alloc /\ (port + 1) \notin alloc

\* variant: the pair is derived from the number of allocated ports
allocatePortsByCount(alloc, basePort) == basePort + Cardinality(alloc)

\* the dev port of the lowest pair of which neither port is allocated
allocatePorts(alloc, basePort) ==
  LET k == CHOOSE k \in 0 .. Cardinality(alloc) :
             /\ PairFree(alloc, basePort + 2 * k)
             /\ \A j \in 0 .. k - 1 : ~PairFree(alloc, basePort + 2 * j)
  IN  basePort + 2 * k

releasePorts(alloc, devPort, serverPort) == alloc \ {devPort, serverPort}

NewWorkspace(i, id, devPort) ==
  [id |-> id, taskId |-> TaskId(i), projectDir |-> ProjectDir(id),
   agentAwareDir |-> AgentAwareDir(ProjectDir(id)),
   devPort |-> devPort, serverPort |-> devPort + 1, cleaned |-> FALSE]

\* variant: cleanup returns early only for an id it does not know
cleanupReturnsEarlyUnknownOnly(wss, id) == id \notin DOMAIN wss

\* if (!workspace || workspace.cleaned) return
cleanupReturnsEarly(wss, id) == id \notin DOMAIN wss \/ wss[id].cleaned

\* variant: cleanup does not call releasePorts
cleanupPortsKept(wss, alloc, id) == alloc

\* cleanup(id, keepFiles): the state of the manager and the disk afterwards
cleanupPorts(wss, alloc, id) ==
  IF cleanupReturnsEarly(wss, id) THEN alloc
  ELSE releasePorts(alloc, wss[id].devPort, wss[id].serverPort)

\* what fs.rmSync(projectDir, {recursive, force}) can raise: nothing, or on the
\* first entry (nothing is removed) or on the root (its content is removed)
RmFaults == {Undefined, "EACCES: unlink", "EBUSY: rmdir"}

rmSync(ds, dir, f) ==
  CASE f = Undefined -> ds \ {dir, AgentAwareDir(dir)}
    [] f = "EBUSY: rmdir" -> ds \ {AgentAwareDir(dir)}
    [] OTHER -> ds

\* cleanup reaches fs.rmSync
cleanupRemovesFiles(wss, id, keepFiles) ==
  ~cleanupReturnsEarly(wss, id) /\ ~keepFiles

\* variant: cleanup leaves the files alone
cleanupDirsKept(wss, ds, id, keepFiles, f) == ds

\* f: the fault of rmSync, which cleanup catches and logs
cleanupDirs(wss, ds, id, keepFiles, f) ==
  IF cleanupRemovesFiles(wss, id, keepFiles) THEN rmSync(ds, wss[id].projectDir, f)
  ELSE ds

cleanupTable(wss, id) ==
  IF cleanupReturnsEarly(wss, id) THEN wss
  ELSE [wss EXCEPT ![id].cleaned = TRUE]

\* ------------------------------------------------------- child processes

\* a ChildProcess: alive (its handle exists), killed (a kill() reached it),
\* sigterm / sigkill (kill was called with that signal)
NewProcess(alive) ==
  [alive |-> alive, killed |-> FALSE, sigterm |-> FALSE, sigkill |-> FALSE]

\* proc.kill(signal): delivered, and killed set, only while the handle
\* exists; SIGKILL ends the process, SIGTERM is left to the process
kill(p, signal) ==
  [p EXCEPT !.killed = @ \/ p.alive,
            !.alive = @ /\ signal # "SIGKILL",
            !.sigterm = @ \/ signal = "SIGTERM",
            !.sigkill = @ \/ signal = "SIGKILL"]

\* the process has exited
exited(p) == [p EXCEPT !.alive = FALSE]

\* an IsolatedEnvironment; ownsDir: its cleanup() deletes projectDir (the
\* environment of createIsolatedEnvironment), ci: the process cleanup() waits for
NoEnv ==
  [exists |-> FALSE, projectDir |-> NoId, ownsDir |-> FALSE,
   serverProcesses |-> <<>>, ci |-> 0]
NewEnv(projectDir, ownsDir) ==
  [exists |-> TRUE, projectDir |-> projectDir, ownsDir |-> ownsDir,
   serverProcesses |-> <<>>, ci |-> 0]

\* env.cleanup(), from process i on, up to its next await: processes already
\* killed are skipped, the first other one gets SIGTERM and the loop waits
\* 500 ms for it (ci: the process waited for, 0: the loop is over)
RECURSIVE cleanupScan(_, _)
cleanupScan(procs, i) ==
  IF i > Len(procs) THEN [serverProcesses |-> procs, ci |-> 0]
  ELSE IF procs[i].killed THEN cleanupScan(procs, i + 1)
  ELSE [serverProcesses |-> [procs EXCEPT ![i] = kill(@, "SIGTERM")], ci |-> i]

\* after the 500 ms: SIGKILL if the process is still not marked killed
cleanupAfterWait(p) == IF ~p.killed THEN kill(p, "SIGKILL") ELSE p

\* ----------------------------------------------------------------- graders

KnownGraderTypes ==
  {"dependency", "server", "data-collection", "storage", "context", "detection",
   "error-handle", "code", "llm", "runtime", "behavior", "alert"}

\* what a grading strategy can do: return a GraderResult (gradeServer pushes
\* the process it spawned, running or exited, to env.serverProcesses), throw
\* an injected fault, or (default branch of the switch) throw for an unknown
\* type
GraderOutcomes(type) ==
  IF type = "server" THEN
    { [kind |-> "result", passed |-> TRUE, score |-> 100, error |-> Undefined, proc |-> "alive"],
      [kind |-> "result", passed |-> FALSE, score |-> 25, error |-> "exit code 1", proc |-> "exited"] }
  ELSE IF type \in KnownGraderTypes THEN
    { [kind |-> "result", passed |-> TRUE, score |-> 100, error |-> Undefined, proc |-> "none"],
      [kind |-> "result", passed |-> FALSE, score |-> 50, error |-> "below threshold", proc |-> "none"],
      [kind |-> "fault", passed |-> FALSE, score |-> 0, error |-> "grader fault", proc |-> "none"] }
  ELSE
    { [kind |-> "throw", passed |-> FALSE, score |-> 0, error |-> "unknown grader type", proc |-> "none"] }

\* the outcomes the fault budget still allows
AllowedGraderOutcomes(type) ==
  {o \in GraderOutcomes(type) : o.kind = "fault" => faults < MaxFaults}

\* variant: a grader that did not return a result counts as passed
runGraderResultLenient(type, o) ==
  IF o.kind = "result"
  THEN [type |-> type, passed |-> o.passed, score |-> o.score, error |-> o.error]
  ELSE [type |-> type, passed |-> TRUE, score |-> 0, error |-> o.error]

\* the GraderResult runGrader returns for an outcome of the strategy
runGraderResult(type, o) ==
  IF o.kind = "result"
  THEN [type |-> type, passed |-> o.passed, score |-> o.score, error |-> o.error]
  ELSE [type |-> type, passed |-> FALSE, score |-> 0, error |-> o.error]

\* the transcript after runGrader's try / catch (recordStepStart came before)
runGraderRecord(r, type, o) ==
  IF o.kind = "result"
  THEN recordGraderResult(recordStepFinish(r, "grader:" \o type, o.passed),
                          runGraderResult(type, o))
  ELSE recordError(recordStepFinish(r, "grader:" \o type, FALSE), o.error)

\* env.serverProcesses after the strategy ran
runGraderProcesses(procs, o) ==
  IF o.proc = "none" THEN procs ELSE Append(procs, NewProcess(o.proc = "alive"))

\* variant: a throwing grader ends the loop
graderLoopNextAbort(n, i, o) == IF o.kind = "result" /\ i < n THEN i + 1 ELSE 0

\* the grading loop after grader i of n settled with outcome o: the index of
\* the next grader (0: the loop is over); a throwing grader does not end it
graderLoopNext(n, i, o) == IF i < n THEN i + 1 ELSE 0

\* variant: the catch block records nothing
trialCatchRecordNone(r, message) == r

\* the recorder after the catch block of runTrial / runTrialWithWorkspace
trialCatchRecord(r, message) == recordError(r, message)

\* ------------------------------------------------------------ trial result

NoTrial ==
  [returned |-> FALSE, taskId |-> "", passed |-> FALSE, graderResults |-> <<>>,
   transcript |-> <<>>, error |-> Undefined]

\* variant: graderResults.some((r) => r.passed)
some(rs) == \E k \in 1 .. Len(rs) : rs[k].passed

\* graderResults.every((r) => r.passed)
every(rs) == \A k \in 1 .. Len(rs) : rs[k].passed

\* the TrialResult of the try block
TrialOk(i, rs, r) ==
  [returned |-> TRUE, taskId |-> TaskId(i), passed |-> every(rs),
   graderResults |-> rs, transcript |-> getEntries(r), error |-> Undefined]

\* the TrialResult of the catch block (r: the recorder after recordError)
TrialError(i, r, message) ==
  [returned |-> TRUE, taskId |-> TaskId(i), passed |-> FALSE,
   graderResults |-> <<>>, transcript |-> getEntries(r), error |-> message]

\* faults of fs calls: fs.mkdirSync in create / createIsolatedEnvironment,
\* fs.readdirSync in listProjectFiles (Undefined: the call succeeds)
CreateFaults == {Undefined, "EACCES: mkdir"}
ListFaults == {Undefined, "EACCES: scandir"}

\* ------------------------------------------- the trial (both trial runners)

TurnText == <<"turn 1", "turn 2", "turn 3">>

wsVars == <<allocatedPorts, workspaces, workspace, creating>>
repVars == <<results, reporter, evalState>>
aloneVars == <<tasks, serialPorts, now, snapshots, arrival, rounds>>

\* variant: setResult leaves the phase of a task without error as it is
setResultKeepsPhase(phase, error) ==
  IF error # Undefined /\ error # "" THEN "error" ELSE phase

\* ProgressDisplay.setResult: task.phase = error ? 'error' : 'done'
setResult(phase, error) ==
  IF error # Undefined /\ error # "" THEN "error" ELSE "done"

\* the faults an fs call can raise here, within the budget (used: the number
\* of faults this segment has injected already)
FaultsIf(reached, used, set) ==
  IF reached /\ faults + used < MaxFaults THEN set ELSE {Undefined}

Injected(f) == IF f = Undefined THEN 0 ELSE 1

\* the grading loop begins, or with no grader listProjectFiles is called
EnterGrading(t, r, lf) ==
  /\ progress' = [progress EXCEPT ![t] = "grading"]
  /\ IF Len(Graders(t)) >= 1
     THEN /\ pc' = [pc EXCEPT ![t] = "grade"]
          /\ gi' = [gi EXCEPT ![t] = 1]
          /\ recorder' = [recorder EXCEPT ![t] =
                            recordStepStart(r, "grader:" \o Graders(t)[1])]
          /\ fault' = fault
     ELSE /\ pc' = [pc EXCEPT ![t] = "finishing"]
          /\ gi' = gi
          /\ recorder' = [recorder EXCEPT ![t] = r]
          /\ fault' = [fault EXCEPT ![t] = lf]

\* variant: the messages are taken from the end of the list
userMessageOfReversed(i, k) == TurnText[NumTurns(i) + 1 - k]

\* task.userMessages[k]: the message of the k-th iteration of the turn loop
userMessageOf(i, k) == TurnText[k]

\* the turn loop begins: runAgentTurn records the user message and calls the agent
EnterTurns(t, r, lf) ==
  IF NumTurns(t) >= 1
  THEN /\ pc' = [pc EXCEPT ![t] = "turn"]
       /\ turn' = [turn EXCEPT ![t] = 1]
       /\ recorder' = [recorder EXCEPT ![t] = recordUserMessage(r, userMessageOf(t, 1))]
       /\ progress' = [progress EXCEPT ![t] = "ai"]
       /\ UNCHANGED <<gi, fault>>
  ELSE /\ turn' = turn
       /\ EnterGrading(t, recordStepFinish(r, "ai", TRUE), lf)



\* variant: a failure of callAI leaves no trace in the transcript
runAgentTurnRecordSilent(r, ok, tools) ==
  IF ok
  THEN IF tools = 1 THEN recordToolCall(recordAssistantMessage(r, "response"), "tool")
                    ELSE recordAssistantMessage(r, "response")
  ELSE r

\* runAgentTurn after callAI settled: the response and its tool calls are
\* recorded, or the failure is; then the next turn or the grading loop
runAgentTurnRecord(r, ok, tools) ==
  IF ok
  THEN IF tools = 1 THEN recordToolCall(recordAssistantMessage(r, "response"), "tool")
                    ELSE recordAssistantMessage(r, "response")
  ELSE recordError(r, "AI API failed")

TurnDone(t) ==
  /\ pc[t] = "turn"
  /\ \E ok \in (IF faults < MaxFaults THEN BOOLEAN ELSE {TRUE}) :
     \E lf \in FaultsIf(turn[t] = NumTurns(t) /\ Len(Graders(t)) = 0,
                        IF ok THEN 0 ELSE 1, ListFaults) :
       /\ faults' = faults + (IF ok THEN 0 ELSE 1) + Injected(lf)
       /\ agentCalls' = [agentCalls EXCEPT ![t] =
                           Append(@, IF ok THEN "returned" ELSE "failed")]
       /\ LET tools == IF turn[t] = 1 THEN 1 ELSE 0
              r1 == runAgentTurnRecord(recorder[t], ok, tools) IN
          IF turn[t] < NumTurns(t)
          THEN /\ turn' = [turn EXCEPT ![t] = @ + 1]
               /\ recorder' = [recorder EXCEPT ![t] =
                                 recordUserMessage(r1, userMessageOf(t, turn[t] + 1))]
               /\ UNCHANGED <<pc, progress, gi, fault>>
          ELSE /\ turn' = turn
               /\ EnterGrading(t, recordStepFinish(r1, "ai", TRUE), lf)
  /\ UNCHANGED <<rewritten, starting, outcomes, config, limiter, wsVars, dirs, graderResults, env, trial,
                 repVars, aloneVars>>

\* runGrader after the strategy settled, then the next grader or the listing
GraderDone(t) ==
  /\ pc[t] = "grade"
  /\ \E o \in AllowedGraderOutcomes(Graders(t)[gi[t]]) :
     \E lf \in FaultsIf(graderLoopNext(Len(Graders(t)), gi[t], o) = 0,
                        IF o.kind = "fault" THEN 1 ELSE 0, ListFaults) :
       LET type == Graders(t)[gi[t]]
           r1 == runGraderRecord(recorder[t], type, o)
           next == graderLoopNext(Len(Graders(t)), gi[t], o)
       IN  /\ faults' = faults + (IF o.kind = "fault" THEN 1 ELSE 0) + Injected(lf)
           /\ outcomes' = [outcomes EXCEPT ![t] = Append(@, o)]
           /\ graderResults' = [graderResults EXCEPT ![t] =
                                  Append(@, runGraderResult(type, o))]
           /\ env' = [env EXCEPT ![t].serverProcesses = runGraderProcesses(@, o)]
           /\ IF next # 0
              THEN /\ gi' = [gi EXCEPT ![t] = next]
                   /\ recorder' = [recorder EXCEPT ![t] =
                        recordStepStart(r1, "grader:" \o Graders(t)[next])]
                   /\ UNCHANGED <<pc, fault>>
              ELSE /\ pc' = [pc EXCEPT ![t] = "finishing"]
                   /\ fault' = [fault EXCEPT ![t] = lf]
                   /\ recorder' = [recorder EXCEPT ![t] = r1]
                   /\ gi' = gi
  /\ UNCHANGED <<rewritten, starting, agentCalls, config, limiter, wsVars, dirs, progress, turn, trial,
                 repVars, aloneVars>>

\* the directories env.cleanup() removes once its process loop is over
cleanupRemoves(e) ==
  IF e.exists /\ e.ownsDir /\ ~config.verbose
  THEN {e.projectDir, AgentAwareDir(e.projectDir)} ELSE {}

\* the end of the try block (return, or catch when a fault is pending), then
\* finally: env.cleanup() up to its first await
TrialFinish(t) ==
  /\ pc[t] = "finishing"
  /\ LET r1 == IF fault[t] = Undefined THEN recorder[t]
               ELSE trialCatchRecord(recorder[t], fault[t])
         scan == cleanupScan(env[t].serverProcesses, 1)
     IN  /\ recorder' = [recorder EXCEPT ![t] = r1]
         /\ trial' = [trial EXCEPT ![t] =
                        IF fault[t] = Undefined
                        THEN TrialOk(t, graderResults[t], r1)
                        ELSE TrialError(t, r1, fault[t])]
         /\ env' = [env EXCEPT ![t].serverProcesses = scan.serverProcesses,
                               ![t].ci = scan.ci]
         /\ pc' = [pc EXCEPT ![t] = IF scan.ci = 0 THEN "trialDone" ELSE "cleaning"]
         /\ dirs' = IF scan.ci = 0 THEN dirs \ cleanupRemoves(env[t]) ELSE dirs
  /\ UNCHANGED <<rewritten, starting, agentCalls, outcomes, faults, config, limiter, wsVars, progress, turn, gi, graderResults,
                 fault, repVars, aloneVars>>

\* env.cleanup() after a 500 ms wait
CleanupStep(t) ==
  /\ pc[t] = "cleaning"
  /\ LET ps == env[t].serverProcesses
           i == env[t].ci
           p1 == cleanupAfterWait(ps[i])
           scan == cleanupScan([ps EXCEPT ![i] = p1], i + 1)
       IN  /\ env' = [env EXCEPT ![t].serverProcesses = scan.serverProcesses,
                                 ![t].ci = scan.ci]
           /\ pc' = [pc EXCEPT ![t] = IF scan.ci = 0 THEN "trialDone" ELSE "cleaning"]
           /\ dirs' = IF scan.ci = 0 THEN dirs \ cleanupRemoves(env[t]) ELSE dirs
  /\ UNCHANGED <<rewritten, starting, agentCalls, outcomes, faults, config, limiter, wsVars, progress, recorder, turn, gi,
                 graderResults, fault, trial, repVars, aloneVars>>

\* ------------------------------------------------------ IncrementalReporter

EvalResultOf(i, tr) == [taskId |-> TaskId(i), passed |-> tr.passed, trial |-> tr]

\* buildReport(): the report document (progress.completed, results)
buildReport(rs, totalTasks) ==
  [state |-> "ok", completed |-> Len(rs), total |-> totalTasks, results |-> rs]

\* a report file whose rewrite was cut short (truncated, or partly written)
PartialReport == [state |-> "partial", completed |-> 0, total |-> 0, results |-> <<>>]

\* the reporter after init(): directories made, the empty report written
NewReporter(totalTasks) ==
  [results |-> <<>>, totalTasks |-> totalTasks,
   report |-> buildReport(<<>>, totalTasks), transcripts |-> {}]

\* variant: the transcript is not saved before the first await
addResultPushOnly(rep, result) ==
  [rep EXCEPT !.results = Append(@, result)]

\* addResult up to its first await: results.push, then saveTranscript
addResultPush(rep, result) ==
  [rep EXCEPT !.results = Append(@, result),
              !.transcripts = @ \cup {result.taskId}]

\* addResult after saveTranscript: writeReport rewrites the report
writeReport(rep) ==
  [rep EXCEPT !.report = buildReport(rep.results, rep.totalTasks)]

\* --------------------------------------------------------- runEvalParallel

WakePc(pcf, w) == IF w = 0 THEN pcf ELSE [pcf EXCEPT ![w] = "acquired"]

\* tasks.map in runEvalParallel is one synchronous segment: each task is
\* set running and its runTaskWithIsolatedWorkspace runs up to limiter.acquire()
AllLaunched == \A j \in Tasks : pc[j] # "new"

Launch(t) ==
  /\ config.mode = "parallel"
  /\ pc[t] = "new"
  /\ \A j \in Tasks : j < t => pc[j] # "new"
  /\ progress' = [progress EXCEPT ![t] = "setup"]
  /\ limiter' = acquire(limiter, t)
  /\ pc' = [pc EXCEPT ![t] = IF acquireGranted(limiter) THEN "acquired" ELSE "queued"]
  /\ UNCHANGED <<rewritten, starting, agentCalls, outcomes, faults, config, wsVars, dirs, recorder, turn, gi, graderResults, env,
                 fault, trial, repVars, aloneVars>>

\* variant: the error of the command leaves the block
execCaughtRethrown(outcome) ==
  IF outcome = "fails" THEN "Command failed" ELSE Undefined

\* try { execSync(command, ...) } catch (error) { console.warn(...) } around
\* pnpm install and around the setup script: the error that leaves the
\* block when the command ends with this outcome (it fails or times out)
execCaught(outcome) == Undefined

\* WorkspaceManager.create up to its first await: the id, allocatePorts,
\* the two mkdirSync and the template files
CreateBegin(t) ==
  /\ AllLaunched
  /\ pc[t] = "acquired"
  /\ \E ts \in TsValues, rnd \in RndValues, f \in FaultsIf(TRUE, 0, CreateFaults) :
       LET id == WorkspaceId(TaskId(t), ts, rnd)
           port == allocatePorts(allocatedPorts, DefaultBasePort)
       IN  /\ allocatedPorts' = allocatedPorts \cup {port, port + 1}
           /\ creating' = [creating EXCEPT ![t] = [id |-> id, devPort |-> port]]
           /\ fault' = [fault EXCEPT ![t] = f]
           /\ faults' = faults + Injected(f)
           /\ IF f = Undefined
              THEN /\ dirs' = dirs \cup {ProjectDir(id), AgentAwareDir(ProjectDir(id))}
                   /\ pc' = [pc EXCEPT ![t] = "creating"]
              ELSE /\ dirs' = dirs
                   /\ pc' = [pc EXCEPT ![t] = "createFailed"]
  /\ UNCHANGED <<rewritten, starting, agentCalls, outcomes, config, limiter, workspaces, workspace, progress, recorder, turn,
                 gi, graderResults, env, trial, repVars, aloneVars>>

\* create after the template: pnpm install in its try / catch, then the
\* workspace is registered
CreateFinish(t) ==
  /\ pc[t] = "creating"
  /\ LET f == execCaught(tasks[t].install) IN
     IF f = Undefined
     THEN /\ workspaces' = (creating[t].id :>
                              NewWorkspace(t, creating[t].id, creating[t].devPort))
                             @@ workspaces
          /\ pc' = [pc EXCEPT ![t] = "created"]
          /\ fault' = fault
     ELSE /\ workspaces' = workspaces
          /\ pc' = [pc EXCEPT ![t] = "createFailed"]
          /\ fault' = [fault EXCEPT ![t] = f]
  /\ UNCHANGED <<rewritten, starting, agentCalls, outcomes, faults, config, limiter, allocatedPorts, workspace, creating, dirs,
                 progress, recorder, turn, gi, graderResults, env, trial,
                 repVars, aloneVars>>

\* create rejected: runTaskWithIsolatedWorkspace has no catch, so its finally
\* releases the slot (workspace is undefined) and its promise rejects, which
\* rejects Promise.all and with it runEvalParallel
CreateRejected(t) ==
  /\ pc[t] = "createFailed"
  /\ limiter' = release(limiter)
  /\ pc' = WakePc([pc EXCEPT ![t] = "rejected"], releaseNext(limiter))
  /\ evalState' = IF evalState = "running" THEN "rejected" ELSE evalState
  /\ UNCHANGED <<rewritten, starting, agentCalls, outcomes, faults, config, wsVars, dirs, progress, recorder, turn, gi,
                 graderResults, env, fault, trial, results, reporter, aloneVars>>

\* create returned: context, rewriteTaskPorts, the setup script in its
\* try / catch, then runTrialWithWorkspace up to its first await
TrialStart(t) ==
  /\ pc[t] = "created"
  /\ workspace' = [workspace EXCEPT ![t] = creating[t].id]
  /\ LET f == execCaught(tasks[t].setup) IN
     IF f = Undefined
     THEN /\ env' = [env EXCEPT ![t] = NewEnv(ProjectDir(creating[t].id), FALSE)]
          /\ \E lf \in FaultsIf(NumTurns(t) = 0 /\ Len(Graders(t)) = 0, 0, ListFaults) :
               /\ faults' = faults + Injected(lf)
               /\ EnterTurns(t, recordStepStart(recordStepFinish(recordStepStart(
                               NewRecorder, "setup"), "setup", TRUE), "ai"), lf)
     ELSE /\ pc' = [pc EXCEPT ![t] = "createFailed"]
          /\ fault' = [fault EXCEPT ![t] = f]
          /\ UNCHANGED <<env, faults, turn, gi, recorder, progress>>
  /\ UNCHANGED <<rewritten, starting, agentCalls, outcomes, config, limiter, allocatedPorts, workspaces, creating, dirs,
                 graderResults, trial, repVars, aloneVars>>

\* runTaskWithIsolatedWorkspace after the trial: its finally releases the
\* slot and, unless files are kept, cleans the workspace up
TaskFinally(t) ==
  /\ config.mode = "parallel"
  /\ pc[t] = "trialDone"
  /\ limiter' = release(limiter)
  /\ pc' = WakePc([pc EXCEPT ![t] = "settled"], releaseNext(limiter))
  /\ IF workspace[t] # NoId /\ ~config.keepTempDir
     THEN \E f \in FaultsIf(cleanupRemovesFiles(workspaces, workspace[t], FALSE),
                            0, RmFaults) :
            /\ faults' = faults + Injected(f)
            /\ allocatedPorts' = cleanupPorts(workspaces, allocatedPorts, workspace[t])
            /\ dirs' = cleanupDirs(workspaces, dirs, workspace[t], FALSE, f)
            /\ workspaces' = cleanupTable(workspaces, workspace[t])
     ELSE UNCHANGED <<faults, allocatedPorts, dirs, workspaces>>
  /\ UNCHANGED <<rewritten, starting, agentCalls, outcomes, config, workspace, creating, progress, recorder, turn, gi,
                 graderResults, env, fault, trial, repVars, aloneVars>>

\* the task's promise fulfilled: results.push, setResult, and addResult up to
\* its first await
ReportBegin(t) ==
  /\ pc[t] = "settled"
  /\ results' = Append(results, EvalResultOf(t, trial[t]))
  /\ progress' = [progress EXCEPT ![t] = setResult(@, trial[t].error)]
  /\ reporter' = addResultPush(reporter, EvalResultOf(t, trial[t]))
  /\ pc' = [pc EXCEPT ![t] = "reporting"]
  /\ UNCHANGED <<rewritten, starting, agentCalls, outcomes, faults, config, limiter, wsVars, dirs, recorder, turn, gi,
                 graderResults, env, fault, trial, evalState, aloneVars>>

\* addResult after saveTranscript: the report is rewritten
ReportWrite(t) ==
  /\ pc[t] = "reporting"
  /\ reporter' = writeReport(reporter)
  /\ pc' = [pc EXCEPT ![t] = "done"]
  /\ UNCHANGED <<rewritten, starting, agentCalls, outcomes, faults, config, limiter, wsVars, dirs, progress, recorder, turn, gi,
                 graderResults, env, fault, trial, results, evalState, aloneVars>>

\* cleanupAll(): cleanup(id) for every id of the table
cleanupAllPorts(wss, alloc) ==
  alloc \ UNION {IF wss[id].cleaned THEN {} ELSE {wss[id].devPort, wss[id].serverPort} :
                   id \in DOMAIN wss}
cleanupAllDirs(wss, ds) ==
  ds \ UNION {IF wss[id].cleaned THEN {} ELSE {wss[id].projectDir, wss[id].agentAwareDir} :
                id \in DOMAIN wss}
cleanupAllTable(wss) == [id \in DOMAIN wss |-> [wss[id] EXCEPT !.cleaned = TRUE]]

\* a.taskId.localeCompare(b.taskId): TaskIdList is in this order
TaskIdRank(id) == CHOOSE k \in 1 .. Len(TaskIdList) : TaskIdList[k] = id
localeCompare(a, b) == TaskIdRank(a) - TaskIdRank(b)

\* variant: the results stay in completion order
sortInsertAppend(sorted, x) == Append(sorted, x)

\* results.sort((a, b) => a.taskId.localeCompare(b.taskId)), a stable sort
sortInsert(sorted, x) ==
  LET k == Cardinality({i \in 1 .. Len(sorted) :
                          localeCompare(sorted[i].taskId, x.taskId) <= 0})
  IN  SubSeq(sorted, 1, k) \o <<x>> \o SubSeq(sorted, k + 1, Len(sorted))

RECURSIVE sortByTaskId(_)
sortByTaskId(rs) ==
  IF rs = <<>> THEN <<>>
  ELSE sortInsert(sortByTaskId(SubSeq(rs, 1, Len(rs) - 1)), rs[Len(rs)])

\* Promise.all fulfilled: cleanupAll unless files are kept, then the sort
EvalReturn ==
  /\ config.mode = "parallel"
  /\ evalState = "running"
  /\ \A t \in Tasks : pc[t] = "done"
  /\ evalState' = "returned"
  /\ IF ~config.keepTempDir
     THEN /\ allocatedPorts' = cleanupAllPorts(workspaces, allocatedPorts)
          /\ dirs' = cleanupAllDirs(workspaces, dirs)
          /\ workspaces' = cleanupAllTable(workspaces)
     ELSE UNCHANGED <<allocatedPorts, dirs, workspaces>>
  /\ results' = sortByTaskId(results)
  /\ UNCHANGED <<rewritten, starting, agentCalls, outcomes, faults, config, pc, limiter, workspace, creating, progress, recorder,
                 turn, gi, graderResults, env, fault, trial, reporter, aloneVars>>

NoCreating == [id |-> NoId, devPort |-> 0]

\* the state every run starts from: nothing allocated, created or recorded
\* no startServerProcess call has been made
NoCall ==
  [promise |-> "none", resolved |-> FALSE, timer |-> "none", interval |-> "none",
   probing |-> FALSE, proc |-> "none", announced |-> FALSE, calls |-> <<>>]

\* rewriteTaskPorts has not been called for the trial
NoTask == [id |-> NoId]

InitShared ==
  /\ faults = 0
  /\ allocatedPorts = {}
  /\ workspaces = <<>>
  /\ workspace = [t \in Tasks |-> NoId]
  /\ creating = [t \in Tasks |-> NoCreating]
  /\ dirs = {}
  /\ progress = [t \in Tasks |-> "pending"]
  /\ now = 0
  /\ recorder = [t \in Tasks |-> [entries |-> <<>>, startTime |-> 0]]
  /\ turn = [t \in Tasks |-> 0]
  /\ gi = [t \in Tasks |-> 0]
  /\ graderResults = [t \in Tasks |-> <<>>]
  /\ env = [t \in Tasks |-> NoEnv]
  /\ fault = [t \in Tasks |-> Undefined]
  /\ results = <<>>
  /\ reporter = NewReporter(NumTasks)
  /\ evalState = "running"
  /\ snapshots = <<>>
  /\ outcomes = [t \in Tasks |-> <<>>]
  /\ agentCalls = [t \in Tasks |-> <<>>]
  /\ arrival = [t \in Tasks |-> 0]
  /\ rounds = [t \in Tasks |-> 0]
  /\ starting = [t \in Tasks |-> NoCall]
  /\ rewritten = [t \in Tasks |-> NoTask]

InitCommon ==
  /\ InitShared
  /\ serialPorts = NewPortAllocator(SerialBasePort, SerialPortRange)

InitParallel ==
  /\ tasks = ParallelBatch
  /\ config \in [mode : {"parallel"}, maxConcurrency : 1 .. MaxConcurrency,
                 keepTempDir : BOOLEAN, verbose : {FALSE}]
  /\ pc = [t \in Tasks |-> "new"]
  /\ limiter = NewLimiter(config.maxConcurrency)
  /\ trial = [t \in Tasks |-> NoTrial]
  /\ InitCommon

\* ----------------------------------------------------------------- runEval

\* path.join(config.tempDirPrefix, `${taskId}-${timestamp}`)
EnvDir(taskId, ts) == "tmp/" \o taskId \o "-" \o ts

\* runEval's loop body up to the first await of runTrial: setRunning, runTask
\* (allocate, rewriteTaskPorts), runTrial (setPhase, recordStepStart) and
\* createIsolatedEnvironment up to its first await; a fault of mkdirSync
\* rejects createIsolatedEnvironment and the catch of runTrial is next
SerialStart(t) ==
  /\ config.mode = "serial"
  /\ pc[t] = "new"
  /\ \A j \in Tasks : j < t => pc[j] = "done"
  /\ ~allocateThrows(serialPorts, TaskId(t))
  /\ serialPorts' = allocate(serialPorts, TaskId(t))
  /\ \E ts \in TsValues, f \in FaultsIf(TRUE, 0, CreateFaults) :
       /\ faults' = faults + Injected(f)
       /\ fault' = [fault EXCEPT ![t] = f]
       /\ creating' = [creating EXCEPT ![t] =
                         [id |-> EnvDir(TaskId(t), ts),
                          devPort |-> allocatePort(serialPorts, TaskId(t))]]
       /\ IF f = Undefined
          THEN /\ dirs' = dirs \cup {EnvDir(TaskId(t), ts),
                                     AgentAwareDir(EnvDir(TaskId(t), ts))}
               /\ pc' = [pc EXCEPT ![t] = "envCreating"]
          ELSE /\ dirs' = dirs
               /\ pc' = [pc EXCEPT ![t] = "finishing"]
  /\ progress' = [progress EXCEPT ![t] = "setup"]
  /\ recorder' = [recorder EXCEPT ![t] = recordStepStart(NewRecorder, "setup")]
  /\ UNCHANGED <<rewritten, starting, agentCalls, outcomes, tasks, config, limiter, allocatedPorts, workspaces, workspace,
                 turn, gi, graderResults, env, trial, repVars, now, snapshots,
                 arrival, rounds>>

\* createIsolatedEnvironment ran the setup script in its try / catch and
\* returned: the ai phase begins
EnvCreated(t) ==
  /\ pc[t] = "envCreating"
  /\ LET f == execCaught(tasks[t].setup) IN
     IF f = Undefined
     THEN /\ env' = [env EXCEPT ![t] = NewEnv(creating[t].id, TRUE)]
          /\ \E lf \in FaultsIf(NumTurns(t) = 0 /\ Len(Graders(t)) = 0, 0, ListFaults) :
               /\ faults' = faults + Injected(lf)
               /\ EnterTurns(t, recordStepStart(
                                  recordStepFinish(recorder[t], "setup", TRUE), "ai"), lf)
     ELSE /\ pc' = [pc EXCEPT ![t] = "finishing"]
          /\ fault' = [fault EXCEPT ![t] = f]
          /\ UNCHANGED <<env, faults, turn, gi, recorder, progress>>
  /\ UNCHANGED <<rewritten, starting, agentCalls, outcomes, config, limiter, wsVars, dirs, graderResults, trial, repVars,
                 aloneVars>>

\* runTrial returned: runTask's finally releases the ports; runEval pushes
\* the result, sets the progress and calls addResult (up to its first await)
SerialReturn(t) ==
  /\ config.mode = "serial"
  /\ pc[t] = "trialDone"
  /\ serialPorts' = releaseTask(serialPorts, TaskId(t))
  /\ results' = Append(results, EvalResultOf(t, trial[t]))
  /\ progress' = [progress EXCEPT ![t] = setResult(@, trial[t].error)]
  /\ reporter' = addResultPush(reporter, EvalResultOf(t, trial[t]))
  /\ pc' = [pc EXCEPT ![t] = "reporting"]
  /\ UNCHANGED <<rewritten, starting, agentCalls, outcomes, faults, tasks, config, limiter, wsVars, dirs, recorder, turn, gi,
                 graderResults, env, fault, trial, evalState, now, snapshots,
                 arrival, rounds>>

\* the loop of runEval is over: progress.finish() and the return
SerialEvalReturn ==
  /\ config.mode = "serial"
  /\ evalState = "running"
  /\ \A t \in Tasks : pc[t] = "done"
  /\ evalState' = "returned"
  /\ UNCHANGED <<rewritten, starting, agentCalls, outcomes, faults, config, pc, limiter, wsVars, dirs, progress, recorder,
                 turn, gi, graderResults, env, fault, trial, results, reporter,
                 aloneVars>>

InitSerial ==
  /\ tasks \in {SerialBatch, EdgeBatch}
  /\ config \in [mode : {"serial"}, maxConcurrency : {1},
                 keepTempDir : BOOLEAN, verbose : BOOLEAN]
  /\ pc = [t \in Tasks |-> "new"]
  /\ limiter = NewLimiter(1)
  /\ trial = [t \in Tasks |-> NoTrial]
  /\ InitCommon

NextSerial ==
  \/ \E t \in Tasks : SerialStart(t)
  \/ \E t \in Tasks : EnvCreated(t)
  \/ \E t \in Tasks : TurnDone(t)
  \/ \E t \in Tasks : GraderDone(t)
  \/ \E t \in Tasks : TrialFinish(t)
  \/ \E t \in Tasks : CleanupStep(t)
  \/ \E t \in Tasks : SerialReturn(t)
  \/ \E t \in Tasks : ReportWrite(t)
  \/ SerialEvalReturn

SpecSerial == InitSerial /\ [][NextSerial]_vars

\* the harness in either mode (runEvalSmart picks one)
Init == InitParallel \/ InitSerial

Next ==
  \/ \E t \in Tasks : Launch(t)
  \/ \E t \in Tasks : CreateBegin(t)
  \/ \E t \in Tasks : CreateFinish(t)
  \/ \E t \in Tasks : CreateRejected(t)
  \/ \E t \in Tasks : TrialStart(t)
  \/ \E t \in Tasks : SerialStart(t)
  \/ \E t \in Tasks : EnvCreated(t)
  \/ \E t \in Tasks : TurnDone(t)
  \/ \E t \in Tasks : GraderDone(t)
  \/ \E t \in Tasks : TrialFinish(t)
  \/ \E t \in Tasks : CleanupStep(t)
  \/ \E t \in Tasks : TaskFinally(t)
  \/ \E t \in Tasks : SerialReturn(t)
  \/ \E t \in Tasks : ReportBegin(t)
  \/ \E t \in Tasks : ReportWrite(t)
  \/ EvalReturn
  \/ SerialEvalReturn

Spec == Init /\ [][Next]_vars

\* ------------------------------------------- ConcurrencyLimiter on its own

\* callers that acquire a slot, hold it and release it, MaxRounds times each
Callers == Tasks

RECURSIVE SumOver(_, _)
SumOver(f, S) ==
  IF S = {} THEN 0
  ELSE LET x == CHOOSE x \in S : TRUE IN f[x] + SumOver(f, S \ {x})

\* acquire(): the slot is granted at once or the caller is queued; arrival
\* numbers the acquire() calls in the order they are made, and is kept for a
\* caller from the call that suspends it until it resumes
LimAcquire(c) ==
  /\ pc[c] = "idle"
  /\ rounds[c] < MaxRounds
  /\ limiter' = acquire(limiter, c)
  /\ pc' = [pc EXCEPT ![c] = IF acquireGranted(limiter) THEN "granted" ELSE "queued"]
  /\ arrival' = [arrival EXCEPT ![c] = IF acquireGranted(limiter) THEN 0
                                        ELSE SumOver(rounds, Callers) + 1]
  /\ rounds' = [rounds EXCEPT ![c] = @ + 1]
  /\ UNCHANGED <<rewritten, starting, agentCalls, outcomes, faults, tasks, config, wsVars, dirs, progress, recorder,
                 turn, gi, graderResults, env, fault, trial, repVars, serialPorts,
                 now, snapshots>>

\* await acquire() returns to a caller whose promise is resolved
LimResume(c) ==
  /\ pc[c] \in {"granted", "woken"}
  /\ pc' = [pc EXCEPT ![c] = "holding"]
  /\ arrival' = [arrival EXCEPT ![c] = 0]
  /\ UNCHANGED <<rewritten, starting, agentCalls, outcomes, faults, config, limiter, wsVars, dirs, progress, recorder,
                 turn, gi, graderResults, env, fault, trial, repVars, tasks,
                 serialPorts, now, snapshots, rounds>>

\* release(): the slot goes to the waiter taken from the queue, if any
LimRelease(c) ==
  /\ pc[c] = "holding"
  /\ limiter' = release(limiter)
  /\ pc' = IF releaseNext(limiter) = 0 THEN [pc EXCEPT ![c] = "idle"]
           ELSE [pc EXCEPT ![c] = "idle", ![releaseNext(limiter)] = "woken"]
  /\ UNCHANGED <<rewritten, starting, agentCalls, outcomes, faults, config, wsVars, dirs, progress, recorder, turn, gi,
                 graderResults, env, fault, trial, repVars, aloneVars>>

InitLimiter ==
  /\ tasks = ParallelBatch
  /\ config \in [mode : {"limiter"}, maxConcurrency : 1 .. MaxConcurrency,
                 keepTempDir : {FALSE}, verbose : {FALSE}]
  /\ pc = [c \in Callers |-> "idle"]
  /\ limiter = NewLimiter(config.maxConcurrency)
  /\ trial = [t \in Tasks |-> NoTrial]
  /\ InitCommon

NextLimiter ==
  \/ \E c \in Callers : LimAcquire(c)
  \/ \E c \in Callers : LimResume(c)
  \/ \E c \in Callers : LimRelease(c)

SpecLimiter == InitLimiter /\ [][NextLimiter]_vars

\* ------------------------------------------- TranscriptRecorder on its own

\* the public record* calls a client makes, with their arguments
RecorderCalls ==
  {"recordUserMessage", "recordToolCalls", "recordToolResult", "recordError",
   "recordChunk:finish", "recordChunk:text-delta"}

recordCall(r, call) ==
  CASE call = "recordUserMessage" -> recordUserMessage(r, "turn 1")
    [] call = "recordToolCalls" -> recordToolCalls(r, <<"read", "write">>)
    [] call = "recordToolResult" -> recordToolResult(r, "read")
    [] call = "recordError" -> recordError(r, "AI API failed")
    [] call = "recordChunk:finish" -> recordChunk(r, "finish")
    [] call = "recordChunk:text-delta" -> recordChunk(r, "text-delta")

recVars ==
  <<rewritten, starting, agentCalls, outcomes, faults, tasks, config, pc, limiter, wsVars, dirs, progress, turn, gi,
    graderResults, env, fault, trial, repVars, serialPorts, arrival, rounds>>

\* one of the record* methods
RecRecord ==
  /\ \E call \in RecorderCalls :
       /\ Len(recordCall(recorder[1], call).entries) <= MaxEntries
       /\ recorder' = [recorder EXCEPT ![1] = recordCall(@, call)]
  /\ UNCHANGED <<recVars, now, snapshots>>

\* getEntries(): the client keeps the copy it is handed
RecGetEntries ==
  /\ Len(snapshots) < MaxSnapshots
  /\ snapshots' = Append(snapshots, getEntries(recorder[1]))
  /\ UNCHANGED <<recVars, now, recorder>>

\* getSummary() reads the entries and changes nothing
RecGetSummary ==
  /\ getSummary(recorder[1]).totalEntries >= 0
  /\ UNCHANGED vars

\* clear()
RecClear ==
  /\ recorder' = [recorder EXCEPT ![1] = clear(@)]
  /\ UNCHANGED <<recVars, now, snapshots>>

\* the clock advances
RecTick ==
  /\ now < MaxClock
  /\ now' = now + 1
  /\ UNCHANGED <<recVars, recorder, snapshots>>

InitRecorder ==
  /\ tasks = SerialBatch
  /\ config = [mode |-> "recorder", maxConcurrency |-> 1, keepTempDir |-> FALSE,
               verbose |-> FALSE]
  /\ pc = [t \in Tasks |-> "new"]
  /\ limiter = NewLimiter(1)
  /\ trial = [t \in Tasks |-> NoTrial]
  /\ InitCommon

NextRecorder ==
  \/ RecRecord
  \/ RecGetEntries
  \/ RecGetSummary
  \/ RecClear
  \/ RecTick

SpecRecorder == InitRecorder /\ [][NextRecorder]_vars

\* ------------------------------------------ IncrementalReporter on its own

\* fs.writeFileSync rewrites the file in place: the file is truncated, then
\* the data is written; a process killed in between leaves a cut-short file
Writing == \E t \in Tasks : pc[t] = "writing"

killVars ==
  <<rewritten, starting, agentCalls, outcomes, faults, tasks, config, limiter, wsVars, dirs, progress, recorder, turn,
    gi, graderResults, env, fault, trial, serialPorts, now, snapshots, arrival,
    rounds>>

\* a trial's result arrives: runEval* pushes it and calls addResult, which
\* pushes it and saves the transcript
RepAddResult(t) ==
  /\ evalState = "running" /\ ~Writing
  /\ pc[t] = "settled"
  /\ results' = Append(results, EvalResultOf(t, trial[t]))
  /\ reporter' = addResultPush(reporter, EvalResultOf(t, trial[t]))
  /\ pc' = [pc EXCEPT ![t] = "reporting"]
  /\ UNCHANGED <<killVars, evalState>>

\* writeReport: writeFileSync has opened and truncated the report file
RepWriteOpen(t) ==
  /\ evalState = "running" /\ ~Writing
  /\ pc[t] = "reporting"
  /\ reporter' = [reporter EXCEPT !.report = PartialReport]
  /\ pc' = [pc EXCEPT ![t] = "writing"]
  /\ UNCHANGED <<killVars, results, evalState>>

\* writeReport: writeFileSync has written the report and returned
RepWriteClose(t) ==
  /\ evalState = "running"
  /\ pc[t] = "writing"
  /\ reporter' = writeReport(reporter)
  /\ pc' = [pc EXCEPT ![t] = "done"]
  /\ UNCHANGED <<killVars, results, evalState>>

\* the process is killed
RepKill ==
  /\ evalState = "running"
  /\ evalState' = "killed"
  /\ UNCHANGED <<killVars, pc, results, reporter>>

\* init() has returned; every trial has a result to hand over
InitReporter ==
  /\ tasks = ParallelBatch
  /\ config = [mode |-> "reporter", maxConcurrency |-> 1, keepTempDir |-> FALSE,
               verbose |-> FALSE]
  /\ pc = [t \in Tasks |-> "settled"]
  /\ limiter = NewLimiter(1)
  /\ InitCommon
  /\ \E passing \in SUBSET Tasks :
       trial = [t \in Tasks |->
                  IF t \in passing
                  THEN TrialOk(t, <<>>, [entries |-> <<>>, startTime |-> 0])
                  ELSE TrialError(t, [entries |-> <<>>, startTime |-> 0], "EACCES: scandir")]

NextReporter ==
  \/ \E t \in Tasks : RepAddResult(t)
  \/ \E t \in Tasks : RepWriteOpen(t)
  \/ \E t \in Tasks : RepWriteClose(t)
  \/ RepKill

SpecReporter == InitReporter /\ [][NextReporter]_vars

\* --------------------------------------------- WorkspaceManager on its own

\* the ids cleanup is called with: those create has made, and one it has not
UnknownId == "no-such-workspace"
CleanupIds == DOMAIN workspaces \cup {UnknownId}

wmVars ==
  <<rewritten, starting, agentCalls, outcomes, tasks, config, pc, limiter, workspace, creating, progress, recorder,
    turn, gi, graderResults, env, fault, trial, repVars, serialPorts, now, snapshots,
    arrival, rounds>>

\* cleanup(id, keepFiles): synchronous up to its return
WsCleanup(id, keepFiles) ==
  /\ \E f \in FaultsIf(cleanupRemovesFiles(workspaces, id, keepFiles), 0, RmFaults) :
       /\ faults' = faults + Injected(f)
       /\ allocatedPorts' = cleanupPorts(workspaces, allocatedPorts, id)
       /\ dirs' = cleanupDirs(workspaces, dirs, id, keepFiles, f)
       /\ workspaces' = cleanupTable(workspaces, id)
  /\ UNCHANGED wmVars

\* cleanupAll(keepFiles): cleanup(id, keepFiles) for every id of the table
\* (each rmSync taken to succeed)
WsCleanupAll(keepFiles) ==
  /\ allocatedPorts' = cleanupAllPorts(workspaces, allocatedPorts)
  /\ dirs' = IF keepFiles THEN dirs ELSE cleanupAllDirs(workspaces, dirs)
  /\ workspaces' = cleanupAllTable(workspaces)
  /\ UNCHANGED <<wmVars, faults>>

\* a manager just constructed; each task calls create once
InitWorkspaces ==
  /\ tasks = ParallelBatch
  /\ config = [mode |-> "workspaces", maxConcurrency |-> NumTasks,
               keepTempDir |-> FALSE, verbose |-> FALSE]
  /\ pc = [t \in Tasks |-> "acquired"]
  /\ limiter = NewLimiter(NumTasks)
  /\ trial = [t \in Tasks |-> NoTrial]
  /\ InitCommon

NextWorkspaces ==
  \/ \E t \in Tasks : CreateBegin(t)
  \/ \E t \in Tasks : CreateFinish(t)
  \/ \E id \in CleanupIds, keepFiles \in BOOLEAN : WsCleanup(id, keepFiles)
  \/ \E keepFiles \in BOOLEAN : WsCleanupAll(keepFiles)

SpecWorkspaces == InitWorkspaces /\ [][NextWorkspaces]_vars

\* ------------------------------------------------- env.cleanup() on its own

envVars ==
  <<rewritten, starting, agentCalls, outcomes, faults, tasks, config, limiter, wsVars, dirs, progress,
    recorder, turn, gi, graderResults, fault, trial, repVars, serialPorts, now,
    snapshots, arrival, rounds>>

\* env.serverProcesses.push(proc): a grader registers a process it has
\* spawned, which is running or has exited already
EnvAddServerProcess(t) ==
  /\ pc[t] = "grade"
  /\ Len(env[t].serverProcesses) < MaxProcesses
  /\ \E a \in BOOLEAN :
       env' = [env EXCEPT ![t].serverProcesses = Append(@, NewProcess(a))]
  /\ UNCHANGED <<envVars, pc>>

\* the grading loop is over and the trial reaches its finally block
EnvTrialOver(t) ==
  /\ pc[t] = "grade"
  /\ pc' = [pc EXCEPT ![t] = "finishing"]
  /\ UNCHANGED <<envVars, env>>

\* env.cleanup() up to its first await
EnvCleanupBegin(t) ==
  /\ pc[t] = "finishing"
  /\ LET scan == cleanupScan(env[t].serverProcesses, 1)
     IN  /\ env' = [env EXCEPT ![t].serverProcesses = scan.serverProcesses,
                               ![t].ci = scan.ci]
         /\ pc' = [pc EXCEPT ![t] = IF scan.ci = 0 THEN "trialDone" ELSE "cleaning"]
  /\ UNCHANGED envVars

\* the 500 ms are over, in which the process has or has not exited on the
\* SIGTERM; then the loop goes on up to its next await
EnvCleanupWait(t) ==
  /\ pc[t] = "cleaning"
  /\ \E exits \in BOOLEAN :
       LET ps == env[t].serverProcesses
           i == env[t].ci
           p1 == cleanupAfterWait(IF exits THEN exited(ps[i]) ELSE ps[i])
           scan == cleanupScan([ps EXCEPT ![i] = p1], i + 1)
       IN  /\ env' = [env EXCEPT ![t].serverProcesses = scan.serverProcesses,
                                 ![t].ci = scan.ci]
           /\ pc' = [pc EXCEPT ![t] = IF scan.ci = 0 THEN "trialDone" ELSE "cleaning"]
  /\ UNCHANGED envVars

\* environments just created, their trials in the grading phase
InitEnvCleanup ==
  /\ tasks = SerialBatch
  /\ config = [mode |-> "cleanup", maxConcurrency |-> 1, keepTempDir |-> FALSE,
               verbose |-> FALSE]
  /\ pc = [t \in Tasks |-> "grade"]
  /\ limiter = NewLimiter(1)
  /\ trial = [t \in Tasks |-> NoTrial]
  /\ InitCommon

NextEnvCleanup ==
  \/ \E t \in Tasks : EnvAddServerProcess(t)
  \/ \E t \in Tasks : EnvTrialOver(t)
  \/ \E t \in Tasks : EnvCleanupBegin(t)
  \/ \E t \in Tasks : EnvCleanupWait(t)

SpecEnvCleanup == InitEnvCleanup /\ [][NextEnvCleanup]_vars

\* ------------------------------------------------ PortAllocator on its own

\* the arguments new PortAllocator(basePort, portRange) is constructed with
BasePorts == {SerialBasePort, SerialBasePort + 1}
PortRanges == 1 .. MaxPortRange

\* the message of the Error allocate throws when no pair is left
PortsExhausted == "port resources exhausted"

paVars ==
  <<rewritten, starting, agentCalls, outcomes, faults, tasks, config, pc, limiter, allocatedPorts, workspaces,
    workspace, dirs, progress, recorder, turn, gi, graderResults, env, trial,
    repVars, now, snapshots, arrival, rounds>>

\* allocate(taskId): the caller keeps the pair it is handed, or the Error
PaAllocate(t) ==
  /\ serialPorts' = allocate(serialPorts, TaskId(t))
  /\ IF allocateThrows(serialPorts, TaskId(t))
     THEN /\ fault' = [fault EXCEPT ![t] = PortsExhausted]
          /\ creating' = creating
     ELSE /\ fault' = [fault EXCEPT ![t] = Undefined]
          /\ creating' = [creating EXCEPT ![t] =
                            [id |-> TaskId(t),
                             devPort |-> allocatePort(serialPorts, TaskId(t))]]
  /\ UNCHANGED paVars

\* release(taskId)
PaRelease(t) ==
  /\ serialPorts' = releaseTask(serialPorts, TaskId(t))
  /\ creating' = [creating EXCEPT ![t] = NoCreating]
  /\ fault' = [fault EXCEPT ![t] = Undefined]
  /\ UNCHANGED paVars

InitPorts ==
  /\ tasks = ParallelBatch
  /\ config = [mode |-> "ports", maxConcurrency |-> 1, keepTempDir |-> FALSE,
               verbose |-> FALSE]
  /\ pc = [t \in Tasks |-> "new"]
  /\ limiter = NewLimiter(1)
  /\ trial = [t \in Tasks |-> NoTrial]
  /\ InitShared
  /\ serialPorts \in {NewPortAllocator(b, n) : b \in BasePorts, n \in PortRanges}

NextPorts ==
  \/ \E t \in Tasks : PaAllocate(t)
  \/ \E t \in Tasks : PaRelease(t)

SpecPorts == InitPorts /\ [][NextPorts]_vars

\* =============================================================== properties

\* ---- C1

\* the workspaces that are created and not yet cleaned
LiveWorkspaces == {id \in DOMAIN workspaces : ~workspaces[id].cleaned}

\* the positions at which create() has registered the task's workspace
RegisteredPcs ==
  {"created", "turn", "grade", "finishing", "cleaning", "trialDone", "settled",
   "reporting", "done"}

PortPair(w) == {w.devPort, w.serverPort}

\* C1: in parallel mode any two workspaces that are created and not yet
\* cleaned have different project directories, different detection
\* directories and disjoint port pairs, and every task that create() returned
\* to has a table entry of its own, under every interleaving of create and
\* cleanup, reallocation of a released pair included.
C1_WorkspacesIsolated ==
  config.mode = "parallel" =>
    /\ \A a, b \in LiveWorkspaces :
         a # b =>
           /\ workspaces[a].projectDir # workspaces[b].projectDir
           /\ workspaces[a].agentAwareDir # workspaces[b].agentAwareDir
           /\ PortPair(workspaces[a]) \cap PortPair(workspaces[b]) = {}
    /\ \A t \in Tasks :
         pc[t] \in RegisteredPcs =>
           /\ creating[t].id \in DOMAIN workspaces
           /\ workspaces[creating[t].id].taskId = TaskId(t)

\* two live workspaces, one of them on the pair a cleaned workspace held
C1_Witness ==
  \E a, b \in LiveWorkspaces : \E c \in DOMAIN workspaces :
    /\ a # b
    /\ workspaces[c].cleaned
    /\ workspaces[c].devPort = workspaces[a].devPort

\* ---- C2

\* the tasks that acquire() has granted a slot and that have not called
\* release() yet, and those of them whose await acquire() has returned
SlotGrantedPcs ==
  {"acquired", "creating", "createFailed", "created", "turn", "grade",
   "finishing", "cleaning", "trialDone"}
SlotHolders == {t \in Tasks : pc[t] \in SlotGrantedPcs}
PastAcquire == {t \in SlotHolders : pc[t] # "acquired"}

\* C2: in parallel mode the tasks that have been granted a slot by
\* limiter.acquire() and have not yet called limiter.release() are never more
\* than maxConcurrency, whatever maxConcurrency >= 1 is.
C2_ConcurrencyBounded ==
  config.mode = "parallel" =>
    /\ Cardinality(SlotHolders) <= config.maxConcurrency
    /\ Cardinality(PastAcquire) <= config.maxConcurrency

\* the largest limit is used up while another task waits in the queue
C2_Witness ==
  /\ config.mode = "parallel"
  /\ config.maxConcurrency = MaxConcurrency
  /\ Cardinality(PastAcquire) = config.maxConcurrency
  /\ \E t \in Tasks : pc[t] = "queued"

\* ---- C3

\* the tasks whose result has been handed to the reporter
Reported ==
  {t \in Tasks : \E k \in 1 .. Len(reporter.results) :
                   reporter.results[k].taskId = TaskId(t)}

\* another task holds the port: create() allocated it and has not cleaned up
HeldByOther(t, port) ==
  \E u \in Tasks \ {t} :
    /\ port \in {creating[u].devPort, creating[u].devPort + 1}
    /\ pc[u] \in {"creating", "createFailed", "rejected"} \cup RegisteredPcs
    /\ creating[u].id \in DOMAIN workspaces => ~workspaces[creating[u].id].cleaned

\* the ports allocated to task t have been released
PortsReleased(t) ==
  IF config.mode = "serial"
  THEN TaskId(t) \notin DOMAIN serialPorts.portLock
  ELSE /\ workspace[t] \in DOMAIN workspaces
       /\ workspaces[workspace[t]].cleaned
       /\ \A port \in PortPair(workspaces[workspace[t]]) :
            port \in allocatedPorts => HeldByOther(t, port)

\* C3: for every trial, ended in done or in error, when its result is handed
\* to the reporter cleanup has run: every process of env.serverProcesses has
\* been sent a termination signal and, unless retention was asked for, the
\* ports allocated to the task are released.
C3_CleanupBeforeReport ==
  \A t \in Reported :
    /\ trial[t].returned
    /\ \A k \in 1 .. Len(env[t].serverProcesses) :
         env[t].serverProcesses[k].sigterm \/ env[t].serverProcesses[k].killed
    /\ ~config.keepTempDir => PortsReleased(t)

\* a reported trial that ended in error after a server process was started
C3_Witness ==
  \E t \in Reported :
    /\ config.mode = "parallel" /\ ~config.keepTempDir
    /\ trial[t].error # Undefined
    /\ Len(env[t].serverProcesses) >= 1
    /\ env[t].serverProcesses[1].alive
    /\ env[t].serverProcesses[1].sigterm

\* ---- C4

\* C4: a grader that throws does not stop the loop: once the loop is over
\* graderResults holds one result per configured grader, in configuration
\* order, and the result of a grader that threw has passed = false,
\* score = 0 and the message of the fault as its error.
C4_GraderFaultIsolated ==
  \A t \in Tasks :
    /\ Len(graderResults[t]) = Len(outcomes[t])
    /\ gi[t] >= 1 /\ pc[t] # "grade" => Len(graderResults[t]) = Len(Graders(t))
    /\ \A k \in 1 .. Len(graderResults[t]) :
         /\ graderResults[t][k].type = Graders(t)[k]
         /\ outcomes[t][k].kind # "result" =>
              /\ graderResults[t][k].passed = FALSE
              /\ graderResults[t][k].score = 0
              /\ graderResults[t][k].error = outcomes[t][k].error

\* the first of two graders threw and the loop is over
C4_Witness ==
  \E t \in Tasks :
    /\ pc[t] \in {"trialDone", "reporting", "done"}
    /\ Len(Graders(t)) = 2
    /\ Len(graderResults[t]) = 2
    /\ outcomes[t][1].kind = "fault"

\* ---- C5

\* the conjunction of the passed fields of a list of grader results
Conjunction(rs) == {rs[k].passed : k \in 1 .. Len(rs)} \subseteq {TRUE}

\* C5 as stated: for every TrialResult, the error path included, passed is
\* the conjunction of graderResults[].passed.
C5_PassedIsConjunction ==
  \A t \in Tasks :
    trial[t].returned => trial[t].passed = Conjunction(trial[t].graderResults)

\* C5: for every TrialResult of the try block (no error) passed is the
\* conjunction of graderResults[].passed; the TrialResult of the catch block
\* has passed = false and an empty graderResults.
C5_PassedIsConjunctionUnlessError ==
  \A t \in Tasks :
    trial[t].returned =>
      IF trial[t].error = Undefined
      THEN /\ trial[t].passed = Conjunction(trial[t].graderResults)
           /\ trial[t].graderResults = graderResults[t]
      ELSE /\ trial[t].passed = FALSE
           /\ trial[t].graderResults = <<>>

\* a trial without error whose first grader passed and whose second failed
C5_Witness ==
  \E t \in Tasks :
    /\ trial[t].returned /\ trial[t].error = Undefined
    /\ Len(trial[t].graderResults) = 2
    /\ trial[t].graderResults[1].passed
    /\ ~trial[t].graderResults[2].passed
    /\ ~trial[t].passed

\* ---- C6

LastEntry(entries) == entries[Len(entries)]

\* C6: in serial mode a fault during a trial, environment creation included,
\* does not make runTrial throw: it returns a TrialResult with passed =
\* false, the fault's message as error, and a transcript whose last entry is
\* an error entry with that message.
C6_SerialFaultContained ==
  \A t \in Tasks :
    pc[t] \in {"cleaning", "trialDone", "reporting", "done"} =>
      /\ trial[t].returned
      /\ fault[t] # Undefined =>
           /\ trial[t].passed = FALSE
           /\ trial[t].error = fault[t]
           /\ trial[t].transcript # <<>>
           /\ LastEntry(trial[t].transcript).type = "error"
           /\ LastEntry(trial[t].transcript).text = fault[t]

\* a trial whose environment creation failed has returned its result
C6_Witness ==
  \E t \in Tasks :
    /\ config.mode = "serial"
    /\ pc[t] = "done"
    /\ fault[t] = "EACCES: mkdir"
    /\ ~env[t].exists

\* ---- C7

\* C7 as stated: in parallel mode a fault while preparing or running one
\* task, a failing WorkspaceManager.create included, never rejects
\* runEvalParallel; the task yields an EvalResult with passed = false and an
\* error, and the other tasks are reported.
C7_ParallelFaultContained ==
  /\ evalState # "rejected"
  /\ \A t \in Tasks : pc[t] # "rejected"
  /\ evalState = "returned" => Reported = Tasks

\* ---- C8

\* the addResult calls that have returned, and those that have been made
AddResultReturned == Cardinality({t \in Tasks : pc[t] = "done"})
AddResultCalled == Len(reporter.results)

\* C8 as stated: after init() has returned, whenever the process is killed
\* the report on disk is well-formed, and with N trials completed (N between
\* the addResult calls that have returned and those that have been made)
\* its progress.completed is N and its results array has N entries.
C8_ReportCrashSafe ==
  evalState = "killed" =>
    /\ reporter.report.state = "ok"
    /\ reporter.report.completed = Len(reporter.report.results)
    /\ reporter.report.completed >= AddResultReturned
    /\ reporter.report.completed <= AddResultCalled

\* ---- C9

IsPrefix(a, b) == Len(a) <= Len(b) /\ SubSeq(b, 1, Len(a)) = a

\* C9 as stated: for every sequence of public TranscriptRecorder operations
\* every later result of getEntries() (what it returns now, and every result
\* kept since) has every earlier result as a prefix.
C9_EntriesOnlyGrow ==
  /\ \A i \in 1 .. Len(snapshots) : IsPrefix(snapshots[i], getEntries(recorder[1]))
  /\ \A i, j \in 1 .. Len(snapshots) : i < j => IsPrefix(snapshots[i], snapshots[j])

\* C9: every public TranscriptRecorder operation other than clear() leaves
\* the entries it found as a prefix of the entries it leaves, so between two
\* clear() calls every later result of getEntries() has every earlier one as
\* a prefix.
C9_EntriesOnlyGrowUnlessCleared ==
  [][RecClear \/ IsPrefix(getEntries(recorder[1]), getEntries(recorder'[1]))]_vars

\* an earlier result of getEntries() and a longer one that getEntries()
\* returns now
C9_Witness ==
  /\ config.mode = "recorder"
  /\ Len(snapshots) >= 1
  /\ snapshots[1] # <<>>
  /\ Len(snapshots[1]) < Len(getEntries(recorder[1]))
  /\ IsPrefix(snapshots[1], getEntries(recorder[1]))

\* ---- C10

\* C10: waiters are granted slots in the order of their acquire() calls:
\* release() wakes the waiter that has waited longest, and a caller that
\* arrives while others wait is queued behind them, never granted a slot.
C10_FifoGrants ==
  [][/\ \A w \in Callers :
          (pc[w] = "queued" /\ pc'[w] = "woken") =>
            \A c \in Callers \ {w} : pc[c] = "queued" => arrival[w] < arrival[c]
     /\ \A c \in Callers :
          (pc[c] = "idle" /\ pc'[c] = "granted") =>
            \A w \in Callers : pc[w] # "queued"]_vars

\* of two waiters the earlier one has been woken, the later one still waits
C10_Witness ==
  \E w, c \in Callers :
    /\ pc[w] = "woken"
    /\ pc[c] = "queued"
    /\ arrival[w] < arrival[c]


\* ------------------------------------------ runEvalParallel under fairness

NextParallel ==
  \/ \E t \in Tasks : Launch(t)
  \/ \E t \in Tasks : CreateBegin(t)
  \/ \E t \in Tasks : CreateFinish(t)
  \/ \E t \in Tasks : CreateRejected(t)
  \/ \E t \in Tasks : TrialStart(t)
  \/ \E t \in Tasks : TurnDone(t)
  \/ \E t \in Tasks : GraderDone(t)
  \/ \E t \in Tasks : TrialFinish(t)
  \/ \E t \in Tasks : CleanupStep(t)
  \/ \E t \in Tasks : TaskFinally(t)
  \/ \E t \in Tasks : ReportBegin(t)
  \/ \E t \in Tasks : ReportWrite(t)
  \/ EvalReturn

\* every await of the run settles (each started trial terminates) and the
\* event loop runs every continuation that is ready: a step that stays
\* enabled is taken
SpecParallelFair ==
  InitParallel /\ [][NextParallel]_vars /\ WF_vars(NextParallel)

\* C11: runEvalParallel eventually returns, whatever the task list and
\* maxConcurrency: every task gets a slot and runs to its result, and no
\* waiter stays suspended in the limiter's queue
C11_EveryTaskRunsAndEvalReturns ==
  <>(/\ evalState = "returned"
     /\ \A t \in Tasks : pc[t] = "done"
     /\ limiter.queue = <<>>)


\* ---- C12

\* the pair a caller holds is the one the allocator has locked for its task
PaHolds(t) == TaskId(t) \in DOMAIN serialPorts.portLock

\* C12: allocate(id) for an id whose pair is not released returns the pair
\* the first call returned and changes neither the port set nor the lock
\* table, whatever allocate and release calls for other ids came in between
C12_AllocateIdempotent ==
  [][\A t \in Tasks :
       (PaAllocate(t) /\ PaHolds(t)) =>
         /\ creating'[t] = creating[t]
         /\ creating[t].devPort = serialPorts.portLock[TaskId(t)]
         /\ serialPorts' = serialPorts]_vars

\* a task holds a pair above the base while another id has allocated and
\* released in between (the lowest pair is free again)
C12_Witness ==
  \E t \in Tasks :
    /\ PaHolds(t)
    /\ creating[t].devPort = serialPorts.basePort + 2
    /\ serialPorts.basePort \notin serialPorts.allocatedPorts


\* ---- C15

\* every pair that lies in [basePort, basePort + portRange) is held
AllPairsHeld(pa) ==
  \A k \in 0 .. pa.portRange :
    pa.basePort + 2 * k + 1 < pa.basePort + pa.portRange =>
      {pa.basePort + 2 * k, pa.basePort + 2 * k + 1} \subseteq pa.allocatedPorts

InRange(pa, port) == port >= pa.basePort /\ port < pa.basePort + pa.portRange

\* C15: with every pair of the range held, allocate for a new id throws and
\* leaves the table unchanged; and whatever basePort and portRange are, every
\* port handed out lies below basePort + portRange
C15_RangeRespected ==
  [][/\ \A t \in Tasks :
          (PaAllocate(t) /\ ~PaHolds(t) /\ AllPairsHeld(serialPorts)) =>
            fault'[t] = PortsExhausted /\ serialPorts' = serialPorts
     /\ \A port \in serialPorts'.allocatedPorts : InRange(serialPorts', port)]_vars


\* ---- C13


LivePorts == UNION {PortPair(workspaces[id]) : id \in LiveWorkspaces}
LiveDirs ==
  UNION {{workspaces[id].projectDir, workspaces[id].agentAwareDir} :
           id \in LiveWorkspaces}

\* C14: cleanup of a workspace that is already cleaned, or of an id the
\* manager does not know, changes nothing; cleanupAll takes ports and
\* directories away from workspaces that were not cleaned only, so ports a
\* cleaned workspace once had and that another workspace holds now stay
\* allocated
C14_RepeatedCleanupNoOp ==
  [][/\ \A id \in CleanupIds, keepFiles \in BOOLEAN :
          (WsCleanup(id, keepFiles) /\ (id = UnknownId \/ workspaces[id].cleaned)) =>
            UNCHANGED <<allocatedPorts, dirs, workspaces, faults>>
     /\ \A keepFiles \in BOOLEAN :
          WsCleanupAll(keepFiles) =>
            /\ allocatedPorts \ allocatedPorts' \subseteq LivePorts
            /\ dirs \ dirs' \subseteq LiveDirs
            /\ \A t \in Tasks :
                 pc[t] = "creating" => creating[t].devPort \in allocatedPorts']_vars

\* a cleaned workspace whose ports another, live workspace holds now
C14_Witness ==
  \E a, b \in DOMAIN workspaces :
    /\ workspaces[a].cleaned /\ ~workspaces[b].cleaned
    /\ PortPair(workspaces[a]) = PortPair(workspaces[b])
    /\ PortPair(workspaces[b]) \subseteq allocatedPorts


\* ---- C16

\* C16: the ports WorkspaceManager.create hands out stay inside a configured
\* range: for some range an operator can configure, every allocated port
\* lies below basePort + range (a create beyond it fails and registers
\* nothing)
C16_CreateBoundedByRange ==
  \E n \in PortRanges :
    \A port \in allocatedPorts : port >= DefaultBasePort /\ port < DefaultBasePort + n


\* ---- C17

\* the entries of one type, in the order they were recorded
RECURSIVE EntriesOf(_, _)
EntriesOf(entries, type) ==
  IF entries = <<>> THEN <<>>
  ELSE IF Head(entries).type = type
       THEN <<Head(entries)>> \o EntriesOf(Tail(entries), type)
       ELSE EntriesOf(Tail(entries), type)

\* the turns that have been sent to the agent so far
TurnsSent(t) == Len(EntriesOf(recorder[t].entries, "user_message"))

\* C17: when callAI fails at turn i, turn i is the last turn of the trial
\* that is sent to the agent
C17_FailureEndsConversation ==
  \A t \in Tasks : \A i \in 1 .. Len(agentCalls[t]) :
    agentCalls[t][i] = "failed" => TurnsSent(t) <= i /\ Len(agentCalls[t]) = i

\* ---- C18

AgentFailures(t) == {i \in 1 .. Len(agentCalls[t]) : agentCalls[t][i] = "failed"}

AgentErrorEntries(t) ==
  {j \in 1 .. Len(recorder[t].entries) :
     /\ recorder[t].entries[j].type = "error"
     /\ recorder[t].entries[j].text = "AI API failed"}

\* C18: every failure of callAI is an error entry of the transcript, and a
\* trial in which callAI failed still runs every grader of the task; its
\* TrialResult has no error unless listProjectFiles threw afterwards, and
\* then the error is that fault's message
C18_AgentFailureIsNotTrialError ==
  \A t \in Tasks :
    /\ Cardinality(AgentErrorEntries(t)) = Cardinality(AgentFailures(t))
    /\ (AgentFailures(t) # {} /\ trial[t].returned) =>
         /\ Len(outcomes[t]) = Len(Graders(t))
         /\ trial[t].error = fault[t]
         /\ fault[t] \in ListFaults
         /\ fault[t] = Undefined =>
              /\ Len(trial[t].graderResults) = Len(Graders(t))
              /\ trial[t].transcript = recorder[t].entries
              /\ AgentErrorEntries(t) # {}

\* callAI failed in a trial that returned a result of all its graders
C18_Witness ==
  \E t \in Tasks :
    /\ AgentFailures(t) # {}
    /\ trial[t].returned /\ trial[t].error = Undefined
    /\ Len(trial[t].graderResults) = Len(Graders(t))
    /\ Len(Graders(t)) >= 2

\* ---- C19

\* C19: the user_message entries of a transcript are the task's messages in
\* declared order; between two of them lies the assistant_message or the
\* error entry of the earlier turn; a tool_call entry follows the
\* assistant_message of its turn directly or after other tool calls; and a
\* turn is sent only when callAI has settled for every turn before it
C19_TurnsInOrder ==
  \A t \in Tasks :
    LET e == recorder[t].entries
        users == {j \in 1 .. Len(e) : e[j].type = "user_message"}
        rank(j) == Cardinality({i \in users : i <= j})
    IN  /\ \A j \in users : e[j].text = TurnText[rank(j)]
        /\ Cardinality(users) <= NumTurns(t)
        /\ \A a, b \in users :
             a < b => \E j \in a + 1 .. b - 1 : e[j].type \in {"assistant_message", "error"}
        /\ \A j \in 1 .. Len(e) :
             e[j].type = "tool_call" =>
               j > 1 /\ e[j - 1].type \in {"assistant_message", "tool_call"}
        /\ Cardinality(users) = Len(agentCalls[t]) + (IF pc[t] = "turn" THEN 1 ELSE 0)

\* the second turn of a trial is awaiting the agent after a first turn with
\* a tool call
C19_Witness ==
  \E t \in Tasks :
    /\ pc[t] = "turn" /\ turn[t] = 2
    /\ agentCalls[t] = <<"returned">>
    /\ \E j \in 1 .. Len(recorder[t].entries) : recorder[t].entries[j].type = "tool_call"


\* ---- C20

\* the GraderResults the grader_result entries of a transcript carry
RECURSIVE ResultsOf(_)
ResultsOf(entries) ==
  IF entries = <<>> THEN <<>>
  ELSE <<Head(entries).res>> \o ResultsOf(Tail(entries))

GraderResultEntries(entries) == ResultsOf(EntriesOf(entries, "grader_result"))

\* C20: graders run in declared order, each grader that has completed has
\* its GraderResult in a grader_result entry, and the grader_result entries
\* of a returned trial's transcript are TrialResult.graderResults, in order
C20_GraderEntriesEqualResults ==
  \A t \in Tasks :
    /\ \A k \in 1 .. Len(graderResults[t]) : graderResults[t][k].type = Graders(t)[k]
    /\ GraderResultEntries(recorder[t].entries) = graderResults[t]
    /\ trial[t].returned =>
         GraderResultEntries(trial[t].transcript) = trial[t].graderResults


\* ---- C21

\* the positions of the graders of task t whose type tag is unknown
UnknownGraders(t) ==
  {k \in 1 .. Len(Graders(t)) : Graders(t)[k] \notin KnownGraderTypes}

\* the grading loop of the trial is over
GradingOver(t) == pc[t] \in {"finishing", "cleaning", "trialDone", "reporting", "done"}

\* C21: a grader with an unknown type tag gets a GraderResult with passed
\* false and score 0; the graders after it still run, the trial returns (its
\* error is set only by a fault of the file listing) and its passed is false
C21_UnknownGraderFails ==
  \A t \in Tasks :
    /\ \A k \in UnknownGraders(t) :
         k <= Len(graderResults[t]) =>
           /\ graderResults[t][k].type = Graders(t)[k]
           /\ ~graderResults[t][k].passed
           /\ graderResults[t][k].score = 0
    /\ (UnknownGraders(t) # {} /\ GradingOver(t) /\ env[t].exists) =>
         Len(graderResults[t]) = Len(Graders(t))
    /\ (UnknownGraders(t) # {} /\ trial[t].returned) =>
         /\ ~trial[t].passed
         /\ trial[t].error = fault[t]
         /\ fault[t] = Undefined => Len(trial[t].graderResults) = Len(Graders(t))

\* a trial returned whose first grader had an unknown tag and whose second
\* grader passed
C21_Witness ==
  \E t \in Tasks :
    /\ trial[t].returned /\ trial[t].error = Undefined
    /\ 1 \in UnknownGraders(t)
    /\ Len(trial[t].graderResults) = 2
    /\ trial[t].graderResults[2].passed


\* ---- C22

\* C22: a task without graders does not pass validation and is never run as
\* a trial: no task that validateTask rejects has a TrialResult, and no
\* TrialResult has passed = true with no grader result
C22_EmptyGradersRejected ==
  \A t \in Tasks :
    /\ Len(Graders(t)) = 0 => validateTaskThrows(tasks[t]) /\ pc[t] = "new"
    /\ trial[t].returned => ~(trial[t].passed /\ trial[t].graderResults = <<>>)


\* ---- C23

\* the phases in the order a task goes through them
PhaseRank(phase) ==
  CASE phase = "pending" -> 0
    [] phase = "setup" -> 1
    [] phase = "ai" -> 2
    [] phase = "grading" -> 3
    [] phase = "done" -> 4
    [] phase = "error" -> 4

\* C23: the phase of a task only moves forward along pending, setup, ai,
\* grading, done, or from a phase before done to error; done and error are
\* never left; and when the batch has returned every task is in done or error
C23_PhasesMoveForward ==
  [][/\ \A t \in Tasks :
          progress'[t] # progress[t] =>
            /\ progress[t] \notin {"done", "error"}
            /\ PhaseRank(progress[t]) < PhaseRank(progress'[t])
     /\ evalState' = "returned" =>
          \A t \in Tasks : progress'[t] \in {"done", "error"}]_vars

\* the batch has returned with a task in done and a task in error
C23_Witness ==
  /\ evalState = "returned"
  /\ \E t \in Tasks : progress[t] = "done"
  /\ \E t \in Tasks : progress[t] = "error"


\* ---- C24

\* C24: in cleanup every registered process that is running is sent SIGTERM,
\* one that is still running after the 500 ms is sent SIGKILL, and when
\* cleanup has returned no registered process is running
C24_NoProcessSurvivesCleanup ==
  \A t \in Tasks :
    LET ps == env[t].serverProcesses IN
    /\ \A k \in 1 .. Len(ps) :
         (ps[k].alive /\ (pc[t] = "trialDone" \/ (pc[t] = "cleaning" /\ k < env[t].ci))) =>
           ps[k].sigterm /\ ps[k].sigkill
    /\ pc[t] = "trialDone" => \A k \in 1 .. Len(ps) : ~ps[k].alive


\* --------------------------------------------- the grading loop on its own

\* what the conversation left in the project directory: no server entry
\* file, a server that exits with an error when started, a working server
Projects == {"no-server-file", "server-crashes", "server-works"}

\* the grader lists of the batch: graders that talk to the task's port
GraderLists ==
  <<<<"server", "error-handle">>, <<"error-handle", "server">>,
    <<"data-collection", "server", "error-handle">>>>

GraderBatches ==
  { [i \in Tasks |->
       [id |-> TaskIdList[i], turns |-> 1,
        graders |-> GraderLists[((i - 1) % Len(GraderLists)) + 1],
        setup |-> "none", install |-> "ok", project |-> p]] : p \in Projects }

\* waitForPort / httpRequest on the task's port: answered by a running
\* process that an earlier grader spawned and left in env.serverProcesses
serverListening(procs) == \E k \in 1 .. Len(procs) : procs[k].alive

\* gradeServer: looks for the entry file, spawns the server, registers the
\* process, then probes the port and the endpoint
gradeServer(project, procs) ==
  IF project = "no-server-file"
  THEN [kind |-> "result", passed |-> FALSE, score |-> 0,
        error |-> "server file not found", proc |-> "none"]
  ELSE IF project = "server-crashes"
  THEN [kind |-> "result", passed |-> FALSE, score |-> 25,
        error |-> "exit code 1", proc |-> "exited"]
  ELSE [kind |-> "result", passed |-> TRUE, score |-> 100,
        error |-> Undefined, proc |-> "alive"]

\* gradeErrorHandle: spawns nothing; without a server on the port it fails
\* with score 0, else it sends its error cases to the server
gradeErrorHandle(project, procs) ==
  IF ~serverListening(procs)
  THEN [kind |-> "result", passed |-> FALSE, score |-> 0,
        error |-> "server not running", proc |-> "none"]
  ELSE [kind |-> "result", passed |-> TRUE, score |-> 100,
        error |-> Undefined, proc |-> "none"]

\* gradeDataCollection: spawns nothing; posts its test data to the port,
\* score = the share of requests that succeeded
gradeDataCollection(project, procs) ==
  IF ~serverListening(procs)
  THEN [kind |-> "result", passed |-> FALSE, score |-> 0,
        error |-> "requests failed", proc |-> "none"]
  ELSE [kind |-> "result", passed |-> TRUE, score |-> 100,
        error |-> Undefined, proc |-> "none"]

\* the switch of runGrader over these types
gradeOutcome(type, project, procs) ==
  IF type = "server" THEN gradeServer(project, procs)
  ELSE IF type = "error-handle" THEN gradeErrorHandle(project, procs)
  ELSE gradeDataCollection(project, procs)

gradeVars ==
  <<rewritten, starting, agentCalls, outcomes, faults, tasks, config, limiter, wsVars, dirs, progress,
    recorder, turn, fault, trial, repVars, serialPorts, now, snapshots, arrival,
    rounds>>

\* the conversation is over: the grading loop starts
GradingBegin(t) ==
  /\ pc[t] = "conversed"
  /\ pc' = [pc EXCEPT ![t] = "grade"]
  /\ gi' = [gi EXCEPT ![t] = 1]
  /\ UNCHANGED <<gradeVars, graderResults, env>>

\* one pass of the grading loop: runGrader(grader, env)
GradingStep(t) ==
  /\ pc[t] = "grade"
  /\ LET type == Graders(t)[gi[t]]
         o == gradeOutcome(type, tasks[t].project, env[t].serverProcesses)
         next == graderLoopNext(Len(Graders(t)), gi[t], o)
     IN  /\ graderResults' = [graderResults EXCEPT ![t] =
                                Append(@, runGraderResult(type, o))]
         /\ env' = [env EXCEPT ![t].serverProcesses = runGraderProcesses(@, o)]
         /\ gi' = [gi EXCEPT ![t] = IF next # 0 THEN next ELSE @]
         /\ pc' = [pc EXCEPT ![t] = IF next # 0 THEN "grade" ELSE "finishing"]
  /\ UNCHANGED gradeVars

\* trials whose conversation is over, their environments without processes
InitGraders ==
  /\ tasks \in GraderBatches
  /\ config = [mode |-> "graders", maxConcurrency |-> 1, keepTempDir |-> FALSE,
               verbose |-> FALSE]
  /\ pc = [t \in Tasks |-> "conversed"]
  /\ limiter = NewLimiter(1)
  /\ trial = [t \in Tasks |-> NoTrial]
  /\ InitCommon

NextGraders ==
  \/ \E t \in Tasks : GradingBegin(t)
  \/ \E t \in Tasks : GradingStep(t)

SpecGraders == InitGraders /\ [][NextGraders]_vars


\* ---- C25

\* C25: within a trial the result of a grader does not depend on the graders
\* that ran before it: it is the result the grader yields when it runs alone
\* on the project the conversation left, in an environment without processes
C25_GraderIndependentOfPrefix ==
  \A t \in Tasks :
    \A k \in 1 .. Len(graderResults[t]) :
      graderResults[t][k] =
        runGraderResult(Graders(t)[k],
                        gradeOutcome(Graders(t)[k], tasks[t].project, <<>>))



\* ---- C26

\* C26: what runEvalParallel returns holds exactly one EvalResult per task
\* of the batch, in ascending order of the task ids, in whatever order the
\* tasks completed
C26_ParallelResultsSortedOnePerTask ==
  (config.mode = "parallel" /\ evalState = "returned") =>
    /\ Len(results) = NumTasks
    /\ \A t \in Tasks :
         Cardinality({k \in 1 .. Len(results) : results[k].taskId = TaskId(t)}) = 1
    /\ \A k \in 1 .. Len(results) : \A l \in 1 .. Len(results) :
         k < l => TaskIdRank(results[k].taskId) < TaskIdRank(results[l].taskId)

\* runEvalParallel has returned, and its tasks completed in descending order
\* of their ids
C26_Witness ==
  /\ config.mode = "parallel" /\ evalState = "returned"
  /\ Len(reporter.results) = NumTasks
  /\ \A k \in 1 .. NumTasks :
       reporter.results[k].taskId = TaskId(NumTasks + 1 - k)



\* ---- C27

\* the report file holds the result of task i
ReportWritten(i) ==
  \E k \in 1 .. Len(reporter.report.results) :
    reporter.report.results[k].taskId = TaskId(i)

\* the ports the serial allocator gives to the task at position i
SerialPortsOf(i) ==
  IF TaskId(i) \in DOMAIN serialPorts.portLock
  THEN {serialPorts.portLock[TaskId(i)], serialPorts.portLock[TaskId(i)] + 1}
  ELSE {}

\* C27: in serial mode trials do not overlap: a task has not started (no
\* port allocated, no setup) before the trial of every earlier task has
\* finished, its port pair is released to the serial allocator and its
\* result is written by the reporter; the results are in input order, one
\* per task
C27_SerialTrialsDoNotOverlap ==
  config.mode = "serial" =>
    /\ \A i \in Tasks : \A j \in Tasks :
         (i < j /\ (pc[j] # "new" \/ TaskId(j) \in DOMAIN serialPorts.portLock
                    \/ progress[j] # "pending")) =>
           /\ pc[i] = "done" /\ trial[i].returned
           /\ TaskId(i) \notin DOMAIN serialPorts.portLock
           /\ ReportWritten(i)
    /\ \A i \in Tasks : \A j \in Tasks :
         i # j => SerialPortsOf(i) \cap SerialPortsOf(j) = {}
    /\ Len(results) <= NumTasks
    /\ \A k \in 1 .. Len(results) : results[k].taskId = TaskId(k)
    /\ evalState = "returned" => Len(results) = NumTasks

\* the last task of the batch is being graded, the others have been reported
C27_Witness ==
  /\ config.mode = "serial"
  /\ pc[NumTasks] = "grade"
  /\ Len(results) = NumTasks - 1
  /\ TaskId(NumTasks) \in DOMAIN serialPorts.portLock



\* ---- C28

\* the setup script of the task, or the dependency install in its
\* workspace, fails or times out
SetupFails(t) == tasks[t].setup = "fails" \/ tasks[t].install = "fails"

\* C28: a setup script or a dependency install that fails or times out
\* aborts neither the creation of the workspace nor the trial: creation is
\* only given up when the directories could not be made, the workspace or
\* environment is handed to the trial, and a trial that returned without an
\* error has held the whole conversation and run every grader
C28_SetupFailureDoesNotAbort ==
  \A t \in Tasks :
    SetupFails(t) =>
      /\ pc[t] \in {"createFailed", "rejected"} =>
           /\ creating[t].id \notin DOMAIN workspaces
           /\ ProjectDir(creating[t].id) \notin dirs
      /\ (config.mode = "serial" /\ pc[t] = "finishing" /\ ~env[t].exists) =>
           creating[t].id \notin dirs
      /\ pc[t] \in {"turn", "grade"} => env[t].exists
      /\ (trial[t].returned /\ trial[t].error = Undefined) =>
           /\ Len(agentCalls[t]) = NumTurns(t)
           /\ Len(trial[t].graderResults) = Len(Graders(t))

\* a task whose setup script or install failed has held its conversation,
\* run its graders and returned a trial that passed
C28_Witness ==
  \E t \in Tasks :
    /\ SetupFails(t)
    /\ trial[t].returned /\ trial[t].passed
    /\ Len(agentCalls[t]) >= 1 /\ Len(trial[t].graderResults) >= 1



\* ---- C29

\* the trial of the task has ended and its clean-up is over
TrialEnded(t) ==
  IF config.mode = "serial" THEN pc[t] \in {"trialDone", "reporting", "done"}
  ELSE pc[t] \in {"settled", "reporting", "done"}

\* C29: when a trial has ended, its project directory has been deleted if
\* and only if retention was not requested (keepTempDir is false), in serial
\* mode as in parallel mode
C29_DirectoryDeletedUnlessKept ==
  \A t \in Tasks :
    (TrialEnded(t) /\ env[t].exists) =>
      (env[t].projectDir \notin dirs <=> ~config.keepTempDir)


\* ------------------------------------------------------- the CLI: main()

\* results.filter((r) => !r.passed).length
failed(rs) == Cardinality({k \in 1 .. Len(rs) : ~rs[k].passed})

\* variant: one failed trial is let through
exitCodeLenient(nFailed) == IF nFailed > 1 THEN 1 ELSE 0

\* process.exit(failed > 0 ? 1 : 0)
exitCode(nFailed) == IF nFailed > 0 THEN 1 ELSE 0

\* the process has exited with this code
Exited(code) == IF code = 0 THEN "exit 0" ELSE "exit 1"
ExitStates == {"exit 0", "exit 1"}

\* main() while it awaits runEval / runEvalParallel: the harness runs
MainAwaits == evalState \notin ExitStates /\ Next

\* main() after the await: the exit code from the results, or the catch
\* block when the run rejected; process.exit ends every pending task
MainExit ==
  /\ evalState \in {"returned", "rejected"}
  /\ evalState' = IF evalState = "rejected" THEN Exited(1)
                  ELSE Exited(exitCode(failed(results)))
  /\ UNCHANGED <<rewritten, starting, tasks, faults, config, pc, limiter, allocatedPorts, workspaces, workspace,
                 creating, dirs, progress, recorder, turn, gi, graderResults, env, fault,
                 trial, results, reporter, serialPorts, now, snapshots, outcomes,
                 agentCalls, arrival, rounds>>

NextCli ==
  \/ MainAwaits
  \/ MainExit

SpecCli == Init /\ [][NextCli]_vars


\* ---- C30

\* C30: the CLI exits with a non-zero code whenever a trial of the batch has
\* passed = false, and with 0 only if every trial of the batch passed and the
\* run did not end in a fatal error
C30_ExitCodeReflectsFailures ==
  /\ evalState = "exit 0" =>
       /\ \A t \in Tasks : trial[t].returned /\ trial[t].passed
       /\ Len(results) = NumTasks
       /\ \A k \in 1 .. Len(results) : results[k].passed
  /\ (evalState \in {"exit 0", "exit 1"}
        /\ \E t \in Tasks : trial[t].returned /\ ~trial[t].passed) =>
       evalState = "exit 1"

\* the batch returned with exactly one failed trial and the CLI has exited
C30_Witness ==
  /\ evalState = "exit 1"
  /\ Len(results) = NumTasks
  /\ Cardinality({t \in Tasks : ~trial[t].passed}) = 1



\* ---- C31

\* C31: allocate for a task id that holds no pair returns the lowest pair
\* (basePort + 2k, basePort + 2k + 1), k >= 0, of which neither port is
\* allocated, serverPort being devPort + 1; so a released pair is handed out
\* again before any higher pair
C31_LowestFreePair ==
  [][\A t \in Tasks :
       (TaskId(t) \notin DOMAIN serialPorts.portLock
          /\ TaskId(t) \in DOMAIN serialPorts'.portLock) =>
         LET p == serialPorts'.portLock[TaskId(t)]
             b == serialPorts.basePort
             free(k) == {b + 2 * k, b + 2 * k + 1} \cap serialPorts.allocatedPorts = {}
         IN  /\ \E k \in 0 .. MaxPortRange :
                  /\ p = b + 2 * k
                  /\ free(k)
                  /\ \A j \in 0 .. k - 1 : ~free(j)
             /\ creating'[t].devPort = p
             /\ serialPorts'.allocatedPorts = serialPorts.allocatedPorts \cup {p, p + 1}]_vars

\* a task holds the lowest pair while a task that comes before it in the
\* batch holds a higher pair: the lowest pair was released and handed out again
C31_Witness ==
  \E t \in Tasks : \E u \in Tasks :
    /\ t < u
    /\ PaHolds(t) /\ PaHolds(u)
    /\ serialPorts.portLock[TaskId(u)] = serialPorts.basePort
    /\ serialPorts.portLock[TaskId(t)] = serialPorts.basePort + 2
    /\ creating[u].devPort = serialPorts.basePort


\* ------------------------------------- the error-handle grader on its own

MaxCases == 3

\* the names of config.errorCases, in order
CaseNames == <<"invalid-json", "missing-field", "wrong-type", "empty-body">>

\* the error cases of a grader configuration together with what the server
\* under test does with each: passes (its answer has the expected status),
\* alive (it still answers the probe sent after the case)
CaseLists ==
  UNION { { [k \in 1 .. n |-> [name |-> CaseNames[k], passes |-> f[k][1], alive |-> f[k][2]]] :
              f \in [1 .. n -> BOOLEAN \X BOOLEAN] } : n \in 0 .. MaxCases }

\* ready: a server answers on the port when the grader starts
ErrorCaseBatches ==
  { [i \in Tasks |->
       [id |-> TaskIdList[i], turns |-> 1, graders |-> <<"error-handle">>,
        setup |-> "none", install |-> "ok", ready |-> r, cases |-> cs]] :
      r \in BOOLEAN, cs \in CaseLists }

\* for (const testCase of errorCases): sendErrorRequest, testResults.push,
\* then checkServerAlive; a failed probe sets serverCrashed and
\* crashedAfterCase and breaks
RECURSIVE errorCaseLoop(_, _, _)
errorCaseLoop(cases, i, testResults) ==
  IF i > Len(cases)
  THEN [testResults |-> testResults, serverCrashed |-> FALSE, crashedAfterCase |-> Undefined]
  ELSE LET tr == Append(testResults, [name |-> cases[i].name, passed |-> cases[i].passes])
       IN  IF ~cases[i].alive
           THEN [testResults |-> tr, serverCrashed |-> TRUE,
                 crashedAfterCase |-> cases[i].name]
           ELSE errorCaseLoop(cases, i + 1, tr)

\* passedCount
passedCases(testResults) ==
  Cardinality({k \in 1 .. Len(testResults) : testResults[k].passed})

\* variant: a crash does not cap the score
errorHandleResultUncapped(details, n) ==
  LET p == passedCases(details.testResults)
  IN  [type |-> "error-handle", passed |-> n > 0 /\ 10 * p >= 7 * n,
       score |-> IF n > 0 THEN (100 * p) \div n ELSE 0,
       details |-> details,
       error |-> IF n > 0 /\ 10 * p >= 7 * n THEN Undefined ELSE "error cases failed"]

\* the GraderResult after the loop over n cases (scores in hundredths):
\* 0.2 when the server crashed, else passedCount / n, passed from 0.7 on
errorHandleResult(details, n) ==
  IF details.serverCrashed
  THEN [type |-> "error-handle", passed |-> FALSE, score |-> 20, details |-> details,
        error |-> "server crashed"]
  ELSE LET p == passedCases(details.testResults)
       IN  [type |-> "error-handle", passed |-> n > 0 /\ 10 * p >= 7 * n,
            score |-> IF n > 0 THEN (100 * p) \div n ELSE 0,
            details |-> details,
            error |-> IF n > 0 /\ 10 * p >= 7 * n THEN Undefined ELSE "error cases failed"]

\* gradeErrorHandle: waitForPort, then the loop and the result
gradeErrorCases(ready, cases) ==
  IF ~ready
  THEN [type |-> "error-handle", passed |-> FALSE, score |-> 0,
        details |-> [testResults |-> <<>>, serverCrashed |-> FALSE,
                     crashedAfterCase |-> Undefined],
        error |-> "server not running"]
  ELSE errorHandleResult(errorCaseLoop(cases, 1, <<>>), Len(cases))

\* runGrader calls gradeErrorHandle for the task's grader
EhGrade(t) ==
  /\ pc[t] = "grade"
  /\ graderResults' = [graderResults EXCEPT ![t] =
                         Append(@, gradeErrorCases(tasks[t].ready, tasks[t].cases))]
  /\ pc' = [pc EXCEPT ![t] = "finishing"]
  /\ UNCHANGED <<gradeVars, gi, env>>

InitErrorHandle ==
  /\ tasks \in ErrorCaseBatches
  /\ config = [mode |-> "error-handle", maxConcurrency |-> 1, keepTempDir |-> FALSE,
               verbose |-> FALSE]
  /\ pc = [t \in Tasks |-> "grade"]
  /\ limiter = NewLimiter(1)
  /\ trial = [t \in Tasks |-> NoTrial]
  /\ InitCommon

NextErrorHandle == \E t \in Tasks : EhGrade(t)

SpecErrorHandle == InitErrorHandle /\ [][NextErrorHandle]_vars


\* ---- C32

\* the first case after which the probe fails (0: the server outlives them all)
FirstCrash(cases) ==
  IF \A k \in 1 .. Len(cases) : cases[k].alive THEN 0
  ELSE CHOOSE k \in 1 .. Len(cases) :
         ~cases[k].alive /\ \A j \in 1 .. k - 1 : cases[j].alive

\* C32: the error-handle grader probes the server after every case; when the
\* probe after case k fails no further case is sent and the result is
\* passed = false, score 0.2, serverCrashed = true, crashedAfterCase = case k,
\* however many cases passed before
C32_CrashCapsScore ==
  \A t \in Tasks :
    \A g \in 1 .. Len(graderResults[t]) :
      LET r == graderResults[t][g]
          k == FirstCrash(tasks[t].cases)
      IN  (tasks[t].ready /\ k # 0) =>
            /\ ~r.passed /\ r.score = 20
            /\ r.details.serverCrashed
            /\ r.details.crashedAfterCase = tasks[t].cases[k].name
            /\ Len(r.details.testResults) = k

\* the server crashed after the last of several cases, all of which passed
C32_Witness ==
  \E t \in Tasks :
    /\ Len(graderResults[t]) = 1
    /\ tasks[t].ready
    /\ Len(tasks[t].cases) >= 2
    /\ FirstCrash(tasks[t].cases) = Len(tasks[t].cases)
    /\ \A k \in 1 .. Len(tasks[t].cases) : tasks[t].cases[k].passes


\* ------------------------------------------- startServerProcess on its own

\* new Promise(...) in startServerProcess: the process is spawned, the
\* timeout and the probe interval are armed
NewCall ==
  [promise |-> "pending", resolved |-> FALSE, timer |-> "armed", interval |-> "armed",
   probing |-> FALSE, proc |-> "running", announced |-> FALSE, calls |-> <<>>]

\* resolve(proc) / reject(error) of a Promise: only the first call settles it
settle(promise, outcome) == IF promise = "pending" THEN outcome ELSE promise

\* clearTimeout(timeoutId), clearInterval(checkInterval)
clearTimer(timer) == IF timer = "armed" THEN "cleared" ELSE timer

\* the body shared by the handlers that settle: resolved = true,
\* clearTimeout, then resolve or reject
settled(c, outcome, call) ==
  [c EXCEPT !.resolved = TRUE, !.timer = clearTimer(@),
            !.promise = settle(@, outcome), !.calls = Append(@, call)]

\* the call has settled and has no timer, interval or probe left
Quiescent(c) ==
  /\ c.promise \in {"resolved", "rejected"}
  /\ c.timer # "armed" /\ c.interval # "armed" /\ ~c.probing

startVars ==
  <<rewritten, agentCalls, outcomes, faults, tasks, config, pc, limiter, wsVars, dirs, progress,
    recorder, turn, gi, graderResults, env, fault, trial, repVars, serialPorts, now,
    snapshots, arrival, rounds>>

\* startServerProcess(projectDir, command, port, timeout) is called
SspCall(t) ==
  /\ starting[t].promise = "none"
  /\ \A u \in Tasks : u < t => Quiescent(starting[u])
  /\ starting' = [starting EXCEPT ![t] = NewCall]
  /\ UNCHANGED startVars

\* proc.stdout 'data' with the port or a readiness keyword in the output
\* (the stream may deliver it after the 'exit' event)
SspStdout(t) ==
  /\ starting[t].proc \in {"running", "exited"}
  /\ ~starting[t].announced
  /\ starting' = [starting EXCEPT ![t] =
                    IF ~starting[t].resolved
                    THEN [settled(@, "resolved", "resolve") EXCEPT !.announced = TRUE]
                    ELSE [@ EXCEPT !.announced = TRUE]]
  /\ UNCHANGED startVars

\* proc 'error': the process could not be spawned
SspError(t) ==
  /\ starting[t].proc = "running"
  /\ ~starting[t].announced
  /\ starting' = [starting EXCEPT ![t] =
                    IF ~starting[t].resolved
                    THEN [settled(@, "rejected", "reject") EXCEPT !.proc = "failed"]
                    ELSE [@ EXCEPT !.proc = "failed"]]
  /\ UNCHANGED startVars

\* proc 'exit' with this code
SspExit(t, code) ==
  /\ starting[t].proc = "running"
  /\ starting' = [starting EXCEPT ![t] =
                    IF ~starting[t].resolved /\ code # 0
                    THEN [settled(@, "rejected", "reject") EXCEPT !.proc = "exited"]
                    ELSE [@ EXCEPT !.proc = "exited"]]
  /\ UNCHANGED startVars

\* variant: the timeout handler settles nothing
timeoutRejectsNever(resolved) == FALSE

\* the test of the timeout handler: if (!resolved)
timeoutRejects(resolved) == ~resolved

\* the setTimeout callback runs
SspTimeout(t) ==
  /\ starting[t].timer = "armed"
  /\ starting' = [starting EXCEPT ![t] =
                    IF timeoutRejects(starting[t].resolved)
                    THEN [settled(@, "rejected", "reject") EXCEPT !.timer = "fired"]
                    ELSE [@ EXCEPT !.timer = "fired"]]
  /\ UNCHANGED startVars

\* the setInterval callback runs up to its await: checkPort is started while
\* the call is unsettled, else the interval is cleared
SspTick(t) ==
  /\ starting[t].interval = "armed"
  /\ starting[t].resolved \/ ~starting[t].probing
  /\ starting' = [starting EXCEPT ![t] =
                    IF ~starting[t].resolved THEN [@ EXCEPT !.probing = TRUE]
                    ELSE [@ EXCEPT !.interval = "cleared"]]
  /\ UNCHANGED startVars

\* checkPort settled: on isReady the callback sets resolved, clears the
\* timeout and the interval and calls resolve(proc), without looking at
\* resolved again
SspProbeDone(t, isReady) ==
  /\ starting[t].probing
  /\ starting' = [starting EXCEPT ![t] =
                    IF isReady
                    THEN [settled(@, "resolved", "resolve") EXCEPT
                            !.probing = FALSE, !.interval = "cleared"]
                    ELSE [@ EXCEPT !.probing = FALSE]]
  /\ UNCHANGED startVars

InitStart ==
  /\ tasks = SerialBatch
  /\ config = [mode |-> "start", maxConcurrency |-> 1, keepTempDir |-> FALSE,
               verbose |-> FALSE]
  /\ pc = [t \in Tasks |-> "grade"]
  /\ limiter = NewLimiter(1)
  /\ trial = [t \in Tasks |-> NoTrial]
  /\ InitCommon

NextStart ==
  \/ \E t \in Tasks : SspCall(t)
  \/ \E t \in Tasks : SspStdout(t)
  \/ \E t \in Tasks : SspError(t)
  \/ \E t \in Tasks : \E code \in {0, 1} : SspExit(t, code)
  \/ \E t \in Tasks : SspTimeout(t)
  \/ \E t \in Tasks : SspTick(t)
  \/ \E t \in Tasks : \E isReady \in BOOLEAN : SspProbeDone(t, isReady)

SpecStart == InitStart /\ [][NextStart]_vars


\* ---- C33

\* C33: startServerProcess settles its promise exactly once: resolved on the
\* first readiness signal (stdout line or successful probe) when that comes
\* first, rejected when the timeout, a spawn error or a non-zero exit comes
\* first; once settled the promise never changes, and it is not pending once
\* the timeout has fired
C33_SettlesExactlyOnce ==
  [][\A t \in Tasks :
       LET c == starting[t]
           d == starting'[t]
       IN  /\ c.promise \in {"resolved", "rejected"} => d.promise = c.promise
           /\ d.promise = "pending" => d.calls = <<>> /\ d.timer = "armed"
           /\ d.promise = "resolved" => d.calls # <<>> /\ d.calls[1] = "resolve"
           /\ d.promise = "rejected" => d.calls # <<>> /\ d.calls[1] = "reject"
           /\ d.promise = "none" => d.calls = <<>>]_vars

\* the timeout rejected while a probe was in flight, and the probe then
\* succeeded and called resolve: the promise stays rejected
C33_Witness ==
  \E t \in Tasks :
    /\ starting[t].promise = "rejected"
    /\ starting[t].timer = "fired"
    /\ starting[t].calls = <<"reject", "resolve">>



\* ---- C34

\* C34: a task leaves the pending phase only when its trial starts to
\* acquire its workspace: in parallel mode a task that waits for a slot is
\* shown as pending, so at most maxConcurrency tasks are shown in setup, ai
\* or grading
C34_QueuedTasksArePending ==
  config.mode = "parallel" =>
    /\ \A t \in Tasks : pc[t] = "queued" => progress[t] = "pending"
    /\ Cardinality({t \in Tasks : progress[t] \in {"setup", "ai", "grading"}})
         <= config.maxConcurrency



\* ---- C35

\* C35: a child process the harness spawns is, on every path (ready, startup
\* timeout, spawn error, early exit), handed to the caller to be registered
\* with the trial's environment or killed by the code that spawned it: no
\* process keeps running once its start has been rejected
C35_NoProcessLeftUnowned ==
  \A t \in Tasks :
    starting[t].proc = "running" => starting[t].promise \in {"pending", "resolved"}



\* ---- C36

\* the task has left runTaskWithIsolatedWorkspace (returned or rejected)
LeftTask(t) == pc[t] \in {"settled", "reporting", "done", "rejected"}

\* C36: every slot acquired in runTaskWithIsolatedWorkspace is released
\* exactly once on every exit path (return, workspace-creation fault, trial
\* fault): the limiter's running count is the number of tasks holding a slot,
\* never negative, and 0 with an empty queue when every task has finished
C36_SlotsReleasedExactlyOnce ==
  config.mode = "parallel" =>
    /\ limiter.running >= 0
    /\ limiter.running = Cardinality(SlotHolders)
    /\ \A t \in Tasks : LeftTask(t) => t \notin SlotHolders
    /\ \A k \in 1 .. Len(limiter.queue) : pc[limiter.queue[k]] = "queued"
    /\ (\A t \in Tasks : LeftTask(t)) => limiter.running = 0 /\ limiter.queue = <<>>

\* every task has left, one of them through a failed workspace creation
\* while a task of the same batch was waiting for the slot
C36_Witness ==
  /\ config.mode = "parallel"
  /\ config.maxConcurrency < NumTasks
  /\ \A t \in Tasks : LeftTask(t)
  /\ \E t \in Tasks : pc[t] = "rejected"
  /\ \E t \in Tasks : pc[t] = "done"
  /\ limiter.running = 0


\* ---- C37

\* C37: in parallel mode with retention off, the workspaces that are created
\* and not yet cleaned, and the allocated port pairs, never number more than
\* maxConcurrency
C37_LiveWorkspacesWithinConcurrency ==
  (config.mode = "parallel" /\ ~config.keepTempDir) =>
    /\ Cardinality(LiveWorkspaces) <= config.maxConcurrency
    /\ Cardinality(allocatedPorts) <= 2 * config.maxConcurrency


\* ---- C38

\* an addResult call has pushed its result and not yet rewritten the report
AddResultPending == \E t \in Tasks : pc[t] = "reporting"

\* the entries of the report on disk that carry this task id
ReportEntriesOf(id) ==
  {k \in 1 .. Len(reporter.report.results) : reporter.report.results[k].taskId = id}

\* what holds of the report on disk between two synchronous segments
ReportConsistent ==
  /\ \A k \in 1 .. Len(reporter.report.results) :
       reporter.report.results[k].taskId \in reporter.transcripts
  /\ ~AddResultPending =>
       /\ reporter.report.completed = Len(reporter.results)
       /\ \A t \in Reported : Cardinality(ReportEntriesOf(TaskId(t))) = 1

\* C38: in parallel mode, however the addResult calls of the tasks
\* interleave, every result listed in the report on disk has its transcript
\* file written, progress.completed of the report on disk never decreases,
\* and when no addResult call is pending the report lists every added result
\* exactly once
C38_ConcurrentAddResultConsistent ==
  /\ [](config.mode = "parallel" => ReportConsistent)
  /\ [][config.mode = "parallel" =>
          reporter'.report.completed >= reporter.report.completed]_vars

\* two addResult calls overlap: the report written by one call already lists
\* the result of another call that has not yet reached its own writeReport
C38_Witness ==
  /\ config.mode = "parallel"
  /\ \E t \in Tasks :
       /\ pc[t] = "reporting"
       /\ ReportEntriesOf(TaskId(t)) # {}
       /\ \E u \in Tasks \ {t} : pc[u] = "done"


\* ------------------------------------------------------- rewriteTaskPorts

MaxGraders == 2

\* grader configurations as task files write them: one of each type with a
\* port field, with the port the file names, and two of types without one
GraderConfigs ==
  <<[type |-> "server", port |-> 4100, endpoint |-> "/behaviors"],
    [type |-> "runtime", port |-> 5202, expectText |-> "Hello"],
    [type |-> "code", checks |-> "typescript"],
    [type |-> "data-collection", port |-> 5203, endpoint |-> "/behaviors"],
    [type |-> "storage", filePath |-> "data/behaviors.json"],
    [type |-> "error-handle", port |-> 4100, endpoint |-> "/behaviors"]>>

\* the grader lists of the tasks: MaxGraders configurations in a row, from
\* each place of the cycle of these configurations
GraderConfigLists ==
  {[k \in 1 .. MaxGraders |-> GraderConfigs[((s + k - 2) % Len(GraderConfigs)) + 1]] :
     s \in 1 .. Len(GraderConfigs)}

ReverseList(s) == [k \in 1 .. Len(s) |-> s[Len(s) + 1 - k]]

\* a setup script and a user message, as the words they are made of
SetupScriptWords == <<"PORT={{SERVER_PORT}}", "{{SERVER_PORT}}", "4100", "{{DEV_PORT}}">>
UserMessageWords == <<"listen", "on", "4100", "and", "41000">>

\* batches whose tasks carry their grader configurations (setupScript <<>>:
\* the task has no script)
RewriteBatches ==
  {[i \in Tasks |->
      [id |-> TaskIdList[i], turns |-> 1,
       graders |-> IF i % 2 = 1 THEN a ELSE ReverseList(a),
       setup |-> "none", install |-> "ok",
       setupScript |-> IF i % 2 = 1 THEN SetupScriptWords ELSE <<>>,
       userMessages |-> <<UserMessageWords>>]] : a \in GraderConfigLists}

\* str.replace(/pattern/g, to) on one word of the string
replaceWord(word, from, to) == IF word = from THEN to ELSE word

\* replacePortPlaceholders(str, context): {{SERVER_PORT}}, then {{DEV_PORT}},
\* then the whole word 4100
replacePortPlaceholders(str, context) ==
  [k \in 1 .. Len(str) |->
     replaceWord(
       replaceWord(
         replaceWord(str[k], "{{SERVER_PORT}}", ToString(context.serverPort)),
         "{{DEV_PORT}}", ToString(context.devPort)),
       "4100", ToString(context.serverPort))]

\* { ...grader, port }
withPort(grader, port) == ("port" :> port) @@ grader

\* variant: every grader with a port is given the server port
rewriteGraderServerPort(grader, context) ==
  IF grader.type \in {"server", "runtime", "data-collection", "error-handle"}
  THEN withPort(grader, context.serverPort)
  ELSE grader

\* the callback of task.graders.map in rewriteTaskPorts
rewriteGrader(grader, context) ==
  IF grader.type = "server" THEN withPort(grader, context.serverPort)
  ELSE IF grader.type = "runtime" THEN withPort(grader, context.devPort)
  ELSE IF grader.type = "data-collection" THEN withPort(grader, context.serverPort)
  ELSE IF grader.type = "error-handle" THEN withPort(grader, context.serverPort)
  ELSE grader

\* rewriteTaskPorts(task, context): a new task object, the input is read only
rewriteTaskPorts(task, context) ==
  [task EXCEPT
     !.graders = [k \in 1 .. Len(task.graders) |-> rewriteGrader(task.graders[k], context)],
     !.setupScript = IF task.setupScript # <<>>
                     THEN replacePortPlaceholders(task.setupScript, context)
                     ELSE <<>>,
     !.userMessages = [k \in 1 .. Len(task.userMessages) |->
                         replacePortPlaceholders(task.userMessages[k], context)]]

\* runTaskWithIsolatedWorkspace after create returned: the context of the
\* workspace, rewriteTaskPorts, then runTrialWithWorkspace(rewrittenTask, ...)
\* is awaited
RewriteTask(t) ==
  /\ pc[t] = "created"
  /\ workspace' = [workspace EXCEPT ![t] = creating[t].id]
  /\ LET w == workspaces[creating[t].id]
         context == [devPort |-> w.devPort, serverPort |-> w.serverPort,
                     taskIndex |-> t - 1, totalTasks |-> NumTasks]
     IN  rewritten' = [rewritten EXCEPT ![t] = rewriteTaskPorts(tasks[t], context)]
  /\ pc' = [pc EXCEPT ![t] = "rewritten"]
  /\ UNCHANGED <<starting, agentCalls, outcomes, faults, config, limiter, allocatedPorts, workspaces,
                 creating, dirs, progress, recorder, turn, gi, graderResults, env, fault,
                 trial, repVars, aloneVars>>

\* runTrialWithWorkspace(rewrittenTask, ...) has returned
RewrittenTrialReturns(t) ==
  /\ pc[t] = "rewritten"
  /\ pc' = [pc EXCEPT ![t] = "trialDone"]
  /\ UNCHANGED <<rewritten, starting, agentCalls, outcomes, faults, config, limiter, wsVars, dirs, progress,
                 recorder, turn, gi, graderResults, env, fault, trial, repVars, aloneVars>>

\* runEvalParallel is called with a batch of tasks with grader configurations
InitRewrite ==
  /\ tasks \in RewriteBatches
  /\ config \in [mode : {"parallel"}, maxConcurrency : 1 .. MaxConcurrency,
                 keepTempDir : BOOLEAN, verbose : {FALSE}]
  /\ pc = [t \in Tasks |-> "new"]
  /\ limiter = NewLimiter(config.maxConcurrency)
  /\ trial = [t \in Tasks |-> NoTrial]
  /\ InitCommon

NextRewrite ==
  \/ \E t \in Tasks : Launch(t)
  \/ \E t \in Tasks : CreateBegin(t)
  \/ \E t \in Tasks : CreateFinish(t)
  \/ \E t \in Tasks : CreateRejected(t)
  \/ \E t \in Tasks : RewriteTask(t)
  \/ \E t \in Tasks : RewrittenTrialReturns(t)
  \/ \E t \in Tasks : TaskFinally(t)

SpecRewrite == InitRewrite /\ [][NextRewrite]_vars

\* ---- C39

PortTypes == {"server", "runtime", "data-collection", "error-handle"}

\* the ports the graders of a task address
GraderPorts(task) ==
  {task.graders[k].port : k \in {j \in 1 .. Len(task.graders) : task.graders[j].type \in PortTypes}}

\* the trial of the task runs: create has allocated its ports and its
\* workspace is not cleaned
TrialRunning(t) == pc[t] \in {"creating", "created", "rewritten", "trialDone"}

\* the grader of the rewritten task is the grader it was made from, with
\* the port of its type
RewrittenFrom(r, g, w) ==
  /\ DOMAIN r = DOMAIN g
  /\ \A fld \in DOMAIN g \ {"port"} : r[fld] = g[fld]
  /\ g.type \in {"server", "data-collection", "error-handle"} => r.port = w.serverPort
  /\ g.type = "runtime" => r.port = w.devPort
  /\ g.type \notin PortTypes => r = g

PortsRewritten ==
  \A t \in Tasks : rewritten[t].id # NoId =>
    LET w == workspaces[workspace[t]] IN
    /\ rewritten[t].id = tasks[t].id
    /\ Len(rewritten[t].graders) = Len(tasks[t].graders)
    /\ \A k \in 1 .. Len(tasks[t].graders) :
         RewrittenFrom(rewritten[t].graders[k], tasks[t].graders[k], w)
    /\ \A u \in Tasks \ {t} :
         pc[t] = "rewritten" /\ TrialRunning(u) =>
           GraderPorts(rewritten[t]) \cap
             {creating[u].devPort, creating[u].devPort + 1} = {}

\* C39: rewriteTaskPorts returns a task whose server, data-collection and
\* error-handle graders have the serverPort of the trial's workspace and
\* whose runtime graders have its devPort, with every other field of every
\* grader, the order of the graders and the task id as in the input, and
\* the input task is left as it was; so no grader of a trial addresses a
\* port of the workspace of another trial that is running
C39_RewriteTaskPortsFrame ==
  /\ []PortsRewritten
  /\ [][tasks' = tasks]_vars

\* two trials run at once, and before the rewrite a grader of one addressed
\* a port that the workspace of the other holds
C39_Witness ==
  \E t, u \in Tasks :
    /\ t # u
    /\ pc[t] = "rewritten" /\ pc[u] = "rewritten"
    /\ GraderPorts(tasks[t]) \cap PortPair(workspaces[workspace[u]]) # {}
    /\ \E k \in 1 .. Len(tasks[t].graders) : tasks[t].graders[k].type = "runtime"
    /\ \E k \in 1 .. Len(tasks[t].graders) : tasks[t].graders[k].type = "code"


\* ---- C40

\* the create call of the task has failed after allocatePorts
CreateFailed(t) == pc[t] \in {"createFailed", "rejected"}

\* C40: when WorkspaceManager.create fails after allocating ports the pair is
\* released again: every allocated port is of the pair of a task whose
\* create has not failed, so failed creations take no port from later tasks
C40_FailedCreateReleasesPorts ==
  \A port \in allocatedPorts :
    \E u \in Tasks :
      /\ ~CreateFailed(u)
      /\ port \in {creating[u].devPort, creating[u].devPort + 1}

====
